---------------------------- MODULE Spec2Model ----------------------------
(***************************************************************************)
(* A model of the copilot-maven-tools-agent upgrade workflow:              *)
(*   scripts/upgrade.py        PomUpdater, the response adapter, the       *)
(*                             mode/ignore policy and run_upgrade          *)
(*   src/analysis/dependency.py the POM resolver                           *)
(*                                                                         *)
(* Text is modelled at the granularity the code's regular expressions and  *)
(* the XML parser see it.  A string is a sequence of one-character         *)
(* strings.  A document is a sequence of tokens: an opening tag <n>, a     *)
(* closing tag </n>, or a maximal run of characters without '<'.  Every    *)
(* pattern of PomUpdater is a chain of literal tags, \s* and [^<]+, so a   *)
(* match always covers whole tokens.                                       *)
(***************************************************************************)
EXTENDS Integers, Sequences, FiniteSets, TLC

VARIABLES
    pom_exists,        \* pom_path.exists()
    disk,              \* the text of the file at pom_path
    content,           \* PomUpdater.content
    original_content,  \* PomUpdater.original_content
    call,              \* the last PomUpdater method called, its arguments and result
    before,            \* PomUpdater.content when that method was entered
    nops,              \* number of PomUpdater methods called so far
    pc,                \* position of run_upgrade
    mode,              \* run_upgrade argument
    dry_run,           \* run_upgrade argument
    ignore_dependencies_arg,  \* run_upgrade argument ignore_dependencies
    ignore_dependencies_env,  \* os.getenv(IGNORE_DEPENDENCIES_ENV_VAR), <<>> for None
    ignored_dependency_keys,
    pom_content,       \* the text run_upgrade read at the start
    parsed_deps,
    mcp_input,
    mcp_response,
    updates,
    fallback_updates,
    minor_patch_updates,
    major_updates,
    applied,
    idx,               \* position of the loop of _apply_pom_updates
    rc,                \* value returned by run_upgrade (-1 while it runs)
    writes,            \* number of write_text calls on pom_path by this run
    start_disk,        \* the text of the file when the run started
    fpc,               \* position of _fetch_mcp_updates and of the client methods
    sdk,               \* the underlying CopilotClient: absent, running or stopped
    _client,           \* CopilotSDKClient._client
    _session,          \* CopilotSDKClient._session
    events,            \* the events the session has delivered to the handler
    result_parts,      \* result_parts of submit
    done,              \* the asyncio.Event of submit
    error_holder,      \* error_holder["error"], <<>> for None
    exc,               \* the exception that is propagating
    response_text,     \* the value submit returned
    fetched            \* the value compare_versions returned

patchVars == <<pom_exists, disk, content, original_content, call, before, nops>>
runVars == <<pc, mode, dry_run, ignore_dependencies_arg, ignore_dependencies_env,
             ignored_dependency_keys, pom_content, parsed_deps,
             mcp_input, mcp_response, updates, fallback_updates,
             minor_patch_updates, major_updates, applied, idx, rc, writes,
             start_disk, fpc, sdk, _client, _session, events, result_parts, done,
             error_holder, exc, response_text, fetched>>
clientVars == <<fpc, sdk, _client, _session, events, result_parts, done,
                error_holder, exc, response_text, fetched>>
vars == <<patchVars, runVars>>

---------------------------------------------------------------------------
(* Strings                                                                 *)

RECURSIVE Join(_)
\* The string a sequence of characters spells.
Join(cs) == IF cs = <<>> THEN "" ELSE Head(cs) \o Join(Tail(cs))

WhiteChars == {" ", "\n", "\t"}

IsBlank(s) == \A i \in 1..Len(s) : s[i] \in WhiteChars

RECURSIVE LStrip(_)
LStrip(s) == IF s # <<>> /\ Head(s) \in WhiteChars THEN LStrip(Tail(s)) ELSE s

RECURSIVE RStrip(_)
RStrip(s) ==
    IF s # <<>> /\ s[Len(s)] \in WhiteChars THEN RStrip(SubSeq(s, 1, Len(s) - 1)) ELSE s

\* str.strip()
Strip(s) == RStrip(LStrip(s))

\* Index of the last occurrence of character c in s, 0 when there is none.
LastIndexOf(s, c) ==
    IF \E i \in 1..Len(s) : s[i] = c
    THEN CHOOSE i \in 1..Len(s) : s[i] = c /\ \A j \in (i+1)..Len(s) : s[j] # c
    ELSE 0

\* s.split(c)[-1]
LastSegment(s, c) == SubSeq(s, LastIndexOf(s, c) + 1, Len(s))

---------------------------------------------------------------------------
(* Documents                                                               *)

Open(n)  == [k |-> "open",  n |-> n,  s |-> <<>>]
Close(n) == [k |-> "close", n |-> n,  s |-> <<>>]
Text(s)  == [k |-> "text",  n |-> "", s |-> s]

IsTok(doc, i, tok) == i \in 1..Len(doc) /\ doc[i] = tok
\* [^<]+ : one non-empty run of characters up to the next tag
IsTextAt(doc, i) == i \in 1..Len(doc) /\ doc[i].k = "text" /\ doc[i].s # <<>>
\* \s* : an optional run of white space between two tags
SkipWs(doc, i) ==
    IF i \in 1..Len(doc) /\ doc[i].k = "text" /\ IsBlank(doc[i].s) THEN i + 1 ELSE i

\* Least element of a non-empty set of numbers.
Min(S) == CHOOSE x \in S : \A y \in S : x <= y

---------------------------------------------------------------------------
(* PomUpdater                                                              *)

\* re.subn(pattern, r"\g<1>NEW\g<3>", text) where the set at holds the position
\* of group 2 of every match: every match is rewritten.
SubstituteAll(doc, at, new_version) ==
    [i \in 1..Len(doc) |-> IF i \in at THEN Text(new_version) ELSE doc[i]]

\* prop_pattern: position of group 2 when the pattern matches at token i, else 0
PropMatch(doc, i, prop_name) ==
    IF /\ IsTok(doc, i, Open(prop_name))
       /\ IsTextAt(doc, i + 1)
       /\ IsTok(doc, i + 2, Close(prop_name))
    THEN i + 1 ELSE 0

PropMatches(doc, prop_name) ==
    {PropMatch(doc, i, prop_name) : i \in 1..Len(doc)} \ {0}

\* PomUpdater._update_property_by_name: [content, ret]
_update_property_by_name(doc, prop_name, new_version) ==
    LET at == PropMatches(doc, prop_name)
    IN  IF at # {}
        THEN [content |-> SubstituteAll(doc, at, new_version), ret |-> TRUE]
        ELSE [content |-> doc, ret |-> FALSE]

\* dep_pattern: position of group 2 when the pattern matches at token i, else 0
DepMatch(doc, i, group_id, artifact_id) ==
    LET g == SkipWs(doc, i + 1)
        a == SkipWs(doc, g + 3)
        v == SkipWs(doc, a + 3)
    IN  IF /\ IsTok(doc, i, Open("dependency"))
           /\ IsTok(doc, g, Open("groupId"))
           /\ IsTok(doc, g + 1, Text(group_id))
           /\ IsTok(doc, g + 2, Close("groupId"))
           /\ IsTok(doc, a, Open("artifactId"))
           /\ IsTok(doc, a + 1, Text(artifact_id))
           /\ IsTok(doc, a + 2, Close("artifactId"))
           /\ IsTok(doc, v, Open("version"))
           /\ IsTextAt(doc, v + 1)
           /\ IsTok(doc, v + 2, Close("version"))
        THEN v + 1 ELSE 0

DepMatches(doc, group_id, artifact_id) ==
    {DepMatch(doc, i, group_id, artifact_id) : i \in 1..Len(doc)} \ {0}

\* re.fullmatch(r"\$\{([^}]+)\}", s)
IsPropRef(s) ==
    /\ Len(s) >= 4
    /\ s[1] = "$" /\ s[2] = "{" /\ s[Len(s)] = "}"
    /\ \A i \in 3..(Len(s) - 1) : s[i] # "}"

\* group(1) of that match
PropRefName(s) == SubSeq(s, 3, Len(s) - 1)

\* property_names with <artifact>-version tried before <lastGroupSegment>.version
PropertyNamesDashFirst(group_id, artifact_id) ==
    << Join(artifact_id) \o ".version",
       Join(artifact_id) \o "-version",
       Join(LastSegment(group_id, ".")) \o ".version" >>

\* property_names of update_version, in the order they are tried
property_names(group_id, artifact_id) ==
    << Join(artifact_id) \o ".version",
       Join(LastSegment(group_id, ".")) \o ".version",
       Join(artifact_id) \o "-version" >>

RECURSIVE TryProperties(_, _, _)
\* the loop over property_names: the first name that updates wins
TryProperties(doc, names, new_version) ==
    IF names = <<>> THEN [content |-> doc, ret |-> FALSE]
    ELSE LET r == _update_property_by_name(doc, Head(names), new_version)
         IN  IF r.ret THEN r ELSE TryProperties(doc, Tail(names), new_version)

\* PomUpdater.update_version: [content, ret]
update_version(doc, group_id, artifact_id, new_version) ==
    LET at == DepMatches(doc, group_id, artifact_id)
    IN  IF at # {}
        THEN LET current_declared_version == Strip(doc[Min(at)].s)
             IN  IF IsPropRef(current_declared_version)
                 THEN _update_property_by_name(
                          doc, Join(PropRefName(current_declared_version)), new_version)
                 ELSE [content |-> SubstituteAll(doc, at, new_version), ret |-> TRUE]
        ELSE TryProperties(doc, property_names(group_id, artifact_id), new_version)

\* parent_pattern: position of group 2 when the pattern matches at token i, else 0
ParentMatch(doc, i) ==
    LET g == SkipWs(doc, i + 1)
        a == SkipWs(doc, g + 3)
        v == SkipWs(doc, a + 3)
    IN  IF /\ IsTok(doc, i, Open("parent"))
           /\ IsTok(doc, g, Open("groupId"))
           /\ IsTextAt(doc, g + 1)
           /\ IsTok(doc, g + 2, Close("groupId"))
           /\ IsTok(doc, a, Open("artifactId"))
           /\ IsTextAt(doc, a + 1)
           /\ IsTok(doc, a + 2, Close("artifactId"))
           /\ IsTok(doc, v, Open("version"))
           /\ IsTextAt(doc, v + 1)
           /\ IsTok(doc, v + 2, Close("version"))
        THEN v + 1 ELSE 0

ParentMatches(doc) == {ParentMatch(doc, i) : i \in 1..Len(doc)} \ {0}

\* update_parent_version that rewrites the text of every <version> element
UpdateParentVersionEveryVersion(doc, new_version) ==
    LET at == {i \in 2..Len(doc) : IsTextAt(doc, i) /\ doc[i - 1] = Open("version")}
    IN  IF ParentMatches(doc) # {}
        THEN [content |-> SubstituteAll(doc, at, new_version), ret |-> TRUE]
        ELSE [content |-> doc, ret |-> FALSE]

\* PomUpdater.update_parent_version: [content, ret]
update_parent_version(doc, new_version) ==
    LET at == ParentMatches(doc)
    IN  IF at # {}
        THEN [content |-> SubstituteAll(doc, at, new_version), ret |-> TRUE]
        ELSE [content |-> doc, ret |-> FALSE]

\* PomUpdater.has_changes
has_changes(c, o) == c # o

---------------------------------------------------------------------------
(* The resolver (src/analysis/dependency.py)                               *)

RECURSIVE Scan(_, _, _, _, _)
\* ET.fromstring on the token sequence: par[i] is the position of the opening
\* tag of the element that contains token i (0 at top level); ok is FALSE
\* where the parser raises ParseError (tags not balanced, text outside the
\* document element, no or more than one document element).
Scan(doc, i, stack, nroots, par) ==
    IF i > Len(doc) THEN [ok |-> stack = <<>> /\ nroots = 1, par |-> par]
    ELSE LET top == IF stack = <<>> THEN 0 ELSE stack[Len(stack)]
             tok == doc[i]
         IN  IF tok.k = "open"
             THEN IF stack = <<>> /\ nroots = 1
                  THEN [ok |-> FALSE, par |-> par]
                  ELSE Scan(doc, i + 1, Append(stack, i),
                            IF stack = <<>> THEN 1 ELSE nroots, Append(par, top))
             ELSE IF tok.k = "close"
             THEN IF top = 0 \/ doc[top].n # tok.n
                  THEN [ok |-> FALSE, par |-> par]
                  ELSE Scan(doc, i + 1, SubSeq(stack, 1, Len(stack) - 1), nroots,
                            Append(par, top))
             ELSE IF top = 0 /\ ~IsBlank(tok.s)
                  THEN [ok |-> FALSE, par |-> par]
                  ELSE Scan(doc, i + 1, stack, nroots, Append(par, top))

ParseXml(doc) == Scan(doc, 1, <<>>, 0, <<>>)

\* the document element
Root(doc, par) == Min({i \in 1..Len(doc) : doc[i].k = "open" /\ par[i] = 0})

\* the child elements of element e, as a set of positions
Children(doc, par, e) == {i \in 1..Len(doc) : doc[i].k = "open" /\ par[i] = e}

\* Element.find(tag): the first child with that tag, 0 for None
Find(doc, par, e, tag) ==
    LET c == {i \in Children(doc, par, e) : doc[i].n = tag}
    IN  IF c = {} THEN 0 ELSE Min(c)

\* Element.text: the text before the first child, NoText for None
ElemText(doc, e) ==
    IF e + 1 <= Len(doc) /\ doc[e + 1].k = "text" THEN doc[e + 1].s ELSE <<>>

\* root.find(".//properties"): the first descendant with that tag, 0 for None
FindDescendant(doc, par, tag) ==
    LET c == {i \in 1..Len(doc) : doc[i].k = "open" /\ par[i] # 0 /\ doc[i].n = tag}
    IN  IF c = {} THEN 0 ELSE Min(c)

\* _extract_properties reading the last properties element, not the first
ExtractPropertiesLastBlock(doc, par) ==
    LET blocks == {i \in 1..Len(doc) :
                      doc[i].k = "open" /\ par[i] # 0 /\ doc[i].n = "properties"}
        props_elem == IF blocks = {} THEN 0
                      ELSE CHOOSE i \in blocks : \A j \in blocks : j <= i
        kids == IF props_elem = 0 THEN {}
                ELSE {i \in Children(doc, par, props_elem) : ElemText(doc, i) # <<>>}
        Last(tag) == CHOOSE i \in kids :
                        doc[i].n = tag /\ \A j \in kids : doc[j].n = tag => j <= i
    IN  [tag \in {doc[i].n : i \in kids} |-> Strip(ElemText(doc, Last(tag)))]

\* _extract_properties: the dict as a function from tag name to stripped text;
\* a later child with the same tag overwrites an earlier one
_extract_properties(doc, par) ==
    LET props_elem == FindDescendant(doc, par, "properties")
        kids == IF props_elem = 0 THEN {}
                ELSE {i \in Children(doc, par, props_elem) : ElemText(doc, i) # <<>>}
        Last(tag) == CHOOSE i \in kids :
                        doc[i].n = tag /\ \A j \in kids : doc[j].n = tag => j <= i
    IN  [tag \in {doc[i].n : i \in kids} |-> Strip(ElemText(doc, Last(tag)))]

ParsedDependency(g, a, v, source) ==
    [group_id |-> g, artifact_id |-> a, version |-> v, source |-> source]

\* ParsedDependency.coordinate / DependencyUpdate.coordinate
coordinate(d) == d.group_id \o <<":">> \o d.artifact_id
\* ParsedDependency.coordinate_with_version
coordinate_with_version(d) == coordinate(d) \o <<":">> \o d.version

\* _extract_parent_dependency: a sequence of zero or one ParsedDependency
_extract_parent_dependency(doc, par) ==
    LET parent == Find(doc, par, Root(doc, par), "parent")
        g == Find(doc, par, parent, "groupId")
        a == Find(doc, par, parent, "artifactId")
        v == Find(doc, par, parent, "version")
    IN  IF parent = 0 THEN <<>>
        ELSE IF \E e \in {g, a, v} : e = 0 \/ ElemText(doc, e) = <<>> THEN <<>>
        ELSE << ParsedDependency(Strip(ElemText(doc, g)), Strip(ElemText(doc, a)),
                                 Strip(ElemText(doc, v)), "parent") >>

StartsWith(s, pre) == Len(s) >= Len(pre) /\ SubSeq(s, 1, Len(pre)) = pre
EndsWith(s, suf) == Len(s) >= Len(suf) /\ SubSeq(s, Len(s) - Len(suf) + 1, Len(s)) = suf

\* _resolve_version that hands the placeholder back unresolved
ResolveVersionKeepsPlaceholder(version, properties) == version

\* _resolve_version: the resolved version, <<>> for None
_resolve_version(version, properties) ==
    IF ~StartsWith(version, <<"$", "{">>) \/ ~EndsWith(version, <<"}">>)
    THEN version
    ELSE LET prop_name == Join(SubSeq(version, 3, Len(version) - 1))
         IN  IF prop_name \in DOMAIN properties /\ properties[prop_name] # <<>>
             THEN properties[prop_name]
             ELSE <<>>

\* _parse_dependency_element without the test for a missing version element
ParseDependencyElementKeepsUnversioned(doc, par, dep, properties) ==
    LET group_id_elem == Find(doc, par, dep, "groupId")
        artifact_id_elem == Find(doc, par, dep, "artifactId")
        version_elem == Find(doc, par, dep, "version")
    IN  IF group_id_elem = 0 \/ artifact_id_elem = 0 THEN <<>>
        ELSE << ParsedDependency(Strip(ElemText(doc, group_id_elem)),
                                 Strip(ElemText(doc, artifact_id_elem)),
                                 IF version_elem = 0 THEN <<>>
                                 ELSE _resolve_version(
                                          Strip(ElemText(doc, version_elem)), properties),
                                 "dependency") >>

\* _parse_dependency_element: a sequence of zero or one ParsedDependency
_parse_dependency_element(doc, par, dep, properties) ==
    LET group_id_elem == Find(doc, par, dep, "groupId")
        artifact_id_elem == Find(doc, par, dep, "artifactId")
        version_elem == Find(doc, par, dep, "version")
    IN  IF group_id_elem = 0 \/ artifact_id_elem = 0 THEN <<>>
        ELSE IF version_elem = 0 \/ ElemText(doc, version_elem) = <<>> THEN <<>>
        ELSE LET version == _resolve_version(Strip(ElemText(doc, version_elem)),
                                             properties)
             IN  IF version = <<>> THEN <<>>
                 ELSE << ParsedDependency(Strip(ElemText(doc, group_id_elem)),
                                          Strip(ElemText(doc, artifact_id_elem)),
                                          version, "dependency") >>

RECURSIVE ParseDependencyElements(_, _, _, _, _)
\* the loop over root.findall(".//dependencies/dependency"), in document order
ParseDependencyElements(doc, par, i, properties, acc) ==
    IF i > Len(doc) THEN acc
    ELSE IF /\ doc[i] = Open("dependency")
            /\ par[i] # 0 /\ doc[par[i]].n = "dependencies" /\ par[par[i]] # 0
         THEN ParseDependencyElements(doc, par, i + 1, properties,
                  acc \o _parse_dependency_element(doc, par, i, properties))
         ELSE ParseDependencyElements(doc, par, i + 1, properties, acc)

\* DependencyAnalyzer.parse_pom_with_properties, for a document that parses
parse_pom_with_properties(doc) ==
    LET par == ParseXml(doc).par
        properties == _extract_properties(doc, par)
    IN  _extract_parent_dependency(doc, par)
            \o ParseDependencyElements(doc, par, 1, properties, <<>>)

RECURSIVE JoinWith(_, _)
\* sep.join(parts)
JoinWith(parts, sep) ==
    IF parts = <<>> THEN <<>>
    ELSE IF Len(parts) = 1 THEN parts[1]
    ELSE parts[1] \o sep \o JoinWith(Tail(parts), sep)

\* DependencyAnalyzer.format_for_mcp
format_for_mcp(dependencies) ==
    JoinWith([i \in 1..Len(dependencies) |-> coordinate_with_version(dependencies[i])],
             <<",">>)

---------------------------------------------------------------------------
(* The response adapter (scripts/upgrade.py)                               *)

\* JSON values as Python sees them
PyStr(s)  == [t |-> "str",  s |-> s,    d |-> <<>>, l |-> <<>>]
PyDict(d) == [t |-> "dict", s |-> <<>>, d |-> d,    l |-> <<>>]
PyList(l) == [t |-> "list", s |-> <<>>, d |-> <<>>, l |-> l]
PyNone    == [t |-> "none", s |-> <<>>, d |-> <<>>, l |-> <<>>]

\* dict.get(key, default)
Get(d, key, default) == IF key \in DOMAIN d THEN d[key] ELSE default

\* bool(value) for the values above
Truthy(v) ==
    CASE v.t = "str"  -> v.s # <<>>
      [] v.t = "dict" -> DOMAIN v.d # {}
      [] v.t = "list" -> v.l # <<>>
      [] OTHER        -> FALSE

UpperChars == <<"A", "J", "M", "O", "R", "I", "N", "P", "T", "C", "H">>
LowerChars == <<"a", "j", "m", "o", "r", "i", "n", "p", "t", "c", "h">>

\* str.lower()
Lower(s) ==
    [i \in 1..Len(s) |->
        IF \E j \in 1..Len(UpperChars) : UpperChars[j] = s[i]
        THEN LowerChars[CHOOSE j \in 1..Len(UpperChars) : UpperChars[j] = s[i]]
        ELSE s[i]]

RECURSIVE Split(_, _)
\* s.split(c)
Split(s, c) ==
    IF \E i \in 1..Len(s) : s[i] = c
    THEN LET i == Min({j \in 1..Len(s) : s[j] = c})
         IN  <<SubSeq(s, 1, i - 1)>> \o Split(SubSeq(s, i + 1, Len(s)), c)
    ELSE <<s>>

sMajor == <<"m", "a", "j", "o", "r">>
sMinor == <<"m", "i", "n", "o", "r">>
sPatch == <<"p", "a", "t", "c", "h">>
sUnknown == <<"u", "n", "k", "n", "o", "w", "n">>

\* _extract_deps_data
_extract_deps_data(response) ==
    IF "data" \in DOMAIN response /\ response["data"].t = "dict"
    THEN Get(response["data"].d, "dependencies",
             Get(response["data"].d, "results", PyList(<<>>)))
    ELSE Get(response, "dependencies", Get(response, "results", PyList(<<>>)))

DependencyUpdate(g, a, current, latest, update_type) ==
    [group_id |-> g, artifact_id |-> a, current_version |-> current,
     latest_version |-> latest, update_type |-> update_type]

\* _parse_single_dependency that keeps the classification as it was sent
ParseSingleDependencyNoLower(dep) ==
    LET current == Get(dep, "currentVersion", Get(dep, "current_version",
                       Get(dep, "current", Get(dep, "version", PyStr(<<>>)))))
        latest == Get(dep, "latestVersion", Get(dep, "latest_version",
                      Get(dep, "latest", Get(dep, "recommendedVersion", PyStr(<<>>)))))
        update_type == Get(dep, "updateType", Get(dep, "update_type",
                           Get(dep, "type", Get(dep, "upgradeType", PyStr(sUnknown)))))
        coord == Get(dep, "coordinate", Get(dep, "dependency", PyStr(<<>>)))
        has_colon == \E i \in 1..Len(coord.s) : coord.s[i] = ":"
        parts == Split(coord.s, ":")
        group_id == IF has_colon THEN PyStr(parts[1]) ELSE Get(dep, "groupId", PyStr(<<>>))
        artifact_id == IF has_colon
                       THEN (IF Len(parts) > 1 THEN PyStr(parts[2]) ELSE PyStr(<<>>))
                       ELSE Get(dep, "artifactId", PyStr(<<>>))
    IN  IF ~Truthy(latest) \/ current = latest THEN <<>>
        ELSE IF ~(Truthy(group_id) /\ Truthy(artifact_id) /\ Truthy(current)
                  /\ Truthy(latest))
        THEN <<>>
        ELSE << DependencyUpdate(group_id.s, artifact_id.s, current.s, latest.s,
                    IF Truthy(update_type) THEN update_type.s ELSE sUnknown) >>

\* _parse_single_dependency: a sequence of zero or one DependencyUpdate
_parse_single_dependency(dep) ==
    LET current == Get(dep, "currentVersion", Get(dep, "current_version",
                       Get(dep, "current", Get(dep, "version", PyStr(<<>>)))))
        latest == Get(dep, "latestVersion", Get(dep, "latest_version",
                      Get(dep, "latest", Get(dep, "recommendedVersion", PyStr(<<>>)))))
        update_type == Get(dep, "updateType", Get(dep, "update_type",
                           Get(dep, "type", Get(dep, "upgradeType", PyStr(sUnknown)))))
        coord == Get(dep, "coordinate", Get(dep, "dependency", PyStr(<<>>)))
        has_colon == \E i \in 1..Len(coord.s) : coord.s[i] = ":"
        parts == Split(coord.s, ":")
        group_id == IF has_colon THEN PyStr(parts[1]) ELSE Get(dep, "groupId", PyStr(<<>>))
        artifact_id == IF has_colon
                       THEN (IF Len(parts) > 1 THEN PyStr(parts[2]) ELSE PyStr(<<>>))
                       ELSE Get(dep, "artifactId", PyStr(<<>>))
    IN  IF ~Truthy(latest) \/ current = latest THEN <<>>
        ELSE IF ~(Truthy(group_id) /\ Truthy(artifact_id) /\ Truthy(current)
                  /\ Truthy(latest))
        THEN <<>>
        ELSE << DependencyUpdate(group_id.s, artifact_id.s, current.s, latest.s,
                    IF Truthy(update_type) THEN Lower(update_type.s) ELSE sUnknown) >>

RECURSIVE ParseEntries(_, _)
\* the loop of parse_mcp_response over deps_data
ParseEntries(deps_data, acc) ==
    IF deps_data = <<>> THEN acc
    ELSE LET dep == Head(deps_data)
         IN  ParseEntries(Tail(deps_data),
                 IF dep.t = "dict" THEN acc \o _parse_single_dependency(dep.d) ELSE acc)

\* parse_mcp_response that takes a top-level list for the dependency list
ParseMcpResponseLenient(response) ==
    IF response.t = "list" THEN ParseEntries(response.l, <<>>)
    ELSE IF response.t # "dict" THEN <<>>
    ELSE LET deps_data == _extract_deps_data(response.d)
         IN  IF deps_data.t # "list" THEN <<>> ELSE ParseEntries(deps_data.l, <<>>)

\* parse_mcp_response
parse_mcp_response(response) ==
    IF response.t # "dict" THEN <<>>
    ELSE LET deps_data == _extract_deps_data(response.d)
         IN  IF deps_data.t # "list" THEN <<>> ELSE ParseEntries(deps_data.l, <<>>)

\* _extract_same_major_fallback_update without the test on the fallback's
\* classification
ExtractFallbackAnyType(dep) ==
    LET fallback == Get(dep, "sameMajorStableFallback",
                        Get(dep, "same_major_stable_fallback", PyNone))
        base_update == _parse_single_dependency(dep)
        latest == Get(fallback.d, "latestVersion",
                      Get(fallback.d, "latest_version", PyStr(<<>>)))
        update_type == Get(fallback.d, "updateType",
                           Get(fallback.d, "update_type", PyStr(<<>>)))
        normalized_type == Lower(Strip(update_type.s))
    IN  IF fallback.t # "dict" THEN <<>>
        ELSE IF base_update = <<>> \/ base_update[1].update_type # sMajor THEN <<>>
        ELSE IF latest.t # "str" \/ Strip(latest.s) = <<>> THEN <<>>
        ELSE << DependencyUpdate(base_update[1].group_id, base_update[1].artifact_id,
                                 base_update[1].current_version, Strip(latest.s),
                                 normalized_type) >>

\* _extract_same_major_fallback_update: a sequence of zero or one DependencyUpdate
_extract_same_major_fallback_update(dep) ==
    LET fallback == Get(dep, "sameMajorStableFallback",
                        Get(dep, "same_major_stable_fallback", PyNone))
        base_update == _parse_single_dependency(dep)
        latest == Get(fallback.d, "latestVersion",
                      Get(fallback.d, "latest_version", PyStr(<<>>)))
        update_type == Get(fallback.d, "updateType",
                           Get(fallback.d, "update_type", PyStr(<<>>)))
        normalized_type == Lower(Strip(update_type.s))
    IN  IF fallback.t # "dict" THEN <<>>
        ELSE IF base_update = <<>> \/ base_update[1].update_type # sMajor THEN <<>>
        ELSE IF latest.t # "str" \/ Strip(latest.s) = <<>> THEN <<>>
        ELSE IF normalized_type \notin {sMinor, sPatch} THEN <<>>
        ELSE << DependencyUpdate(base_update[1].group_id, base_update[1].artifact_id,
                                 base_update[1].current_version, Strip(latest.s),
                                 normalized_type) >>

RECURSIVE ExtractFallbacks(_, _)
\* the loop of extract_server_same_major_fallback_updates over deps_data
ExtractFallbacks(deps_data, acc) ==
    IF deps_data = <<>> THEN acc
    ELSE LET dep == Head(deps_data)
         IN  ExtractFallbacks(Tail(deps_data),
                 IF dep.t = "dict"
                 THEN acc \o _extract_same_major_fallback_update(dep.d) ELSE acc)

\* extract_server_same_major_fallback_updates
extract_server_same_major_fallback_updates(response) ==
    IF response.t # "dict" THEN <<>>
    ELSE LET deps_data == _extract_deps_data(response.d)
         IN  IF deps_data.t # "list" THEN <<>> ELSE ExtractFallbacks(deps_data.l, <<>>)

---------------------------------------------------------------------------
(* The policy (scripts/upgrade.py)                                         *)

\* _normalize_dependency_key
_normalize_dependency_key(value) ==
    LET raw == Split(value, ":")
        parts == [i \in 1..Len(raw) |-> Strip(raw[i])]
    IN  IF Len(parts) >= 2 /\ parts[1] # <<>> /\ parts[2] # <<>>
        THEN parts[1] \o <<":">> \o parts[2]
        ELSE Strip(value)

RECURSIVE SplitRuns(_, _)
\* re.split(r"[seps]+", s)
SplitRuns(s, seps) ==
    IF \E i \in 1..Len(s) : s[i] \in seps
    THEN LET i == Min({j \in 1..Len(s) : s[j] \in seps})
             rest == SubSeq(s, i + 1, Len(s))
             n == IF \E j \in 1..Len(rest) : rest[j] \notin seps
                  THEN Min({j \in 1..Len(rest) : rest[j] \notin seps}) - 1
                  ELSE Len(rest)
         IN  <<SubSeq(s, 1, i - 1)>> \o SplitRuns(SubSeq(rest, n + 1, Len(rest)), seps)
    ELSE <<s>>

\* the keys one loop of parse_ignored_dependency_keys adds
IgnoredFrom(raws) ==
    {k \in {_normalize_dependency_key(raws[i]) : i \in 1..Len(raws)} :
        k # <<>> /\ \E j \in 1..Len(k) : k[j] = ":"}

\* parse_ignored_dependency_keys; env_value <<>> stands for None or ""
parse_ignored_dependency_keys(ignore_dependencies, env_value) ==
    IgnoredFrom(ignore_dependencies)
        \cup (IF env_value # <<>>
              THEN IgnoredFrom(SplitRuns(env_value, {"\n", ","}))
              ELSE {})

\* _filter_ignored_parsed_dependencies: [kept, ignored]
_filter_ignored_parsed_dependencies(deps, ignored_keys) ==
    IF ignored_keys = {} THEN [kept |-> deps, ignored |-> <<>>]
    ELSE [kept |-> SelectSeq(deps, LAMBDA d : coordinate(d) \notin ignored_keys),
          ignored |-> SelectSeq(deps, LAMBDA d : coordinate(d) \in ignored_keys)]

\* _filter_ignored_updates without the safety net
FilterIgnoredUpdatesNone(us, ignored_keys) == us

\* _filter_ignored_updates
_filter_ignored_updates(us, ignored_keys) ==
    IF ignored_keys = {} THEN us
    ELSE SelectSeq(us, LAMBDA u : coordinate(u) \notin ignored_keys)

\* _parse_pom_dependencies, for a document that parses: [parsed_deps, mcp_input]
_parse_pom_dependencies(doc, ignored_keys) ==
    LET deps == parse_pom_with_properties(doc)
        filtered_deps == _filter_ignored_parsed_dependencies(deps, ignored_keys).kept
    IN  IF deps = <<>> THEN [parsed_deps |-> <<>>, mcp_input |-> <<>>]
        ELSE IF filtered_deps = <<>> THEN [parsed_deps |-> <<>>, mcp_input |-> <<>>]
        ELSE [parsed_deps |-> filtered_deps, mcp_input |-> format_for_mcp(filtered_deps)]

\* _filter_updates_by_mode that also hands the major updates to the patcher
FilterByModeMajorApplied(us, m) ==
    IF m = "minor_patch"
    THEN [minor_patch |-> us,
          major |-> SelectSeq(us, LAMBDA u : u.update_type = sMajor)]
    ELSE [minor_patch |-> <<>>, major |-> us]

\* _filter_updates_by_mode that splits by classification in every mode
FilterByModeIgnoringMode(us, m) ==
    [minor_patch |-> SelectSeq(us, LAMBDA u : u.update_type \in {sMinor, sPatch}),
     major |-> SelectSeq(us, LAMBDA u : u.update_type = sMajor)]

\* _filter_updates_by_mode: [minor_patch, major]
_filter_updates_by_mode(us, m) ==
    IF m = "minor_patch"
    THEN [minor_patch |-> SelectSeq(us, LAMBDA u : u.update_type \in {sMinor, sPatch}),
          major |-> SelectSeq(us, LAMBDA u : u.update_type = sMajor)]
    ELSE [minor_patch |-> <<>>, major |-> us]

\* the fallback loop without the existing_pairs test
MergeFallbacksNoDedup(us, fallbacks, existing_pairs) == us \o fallbacks

RECURSIVE MergeFallbacks(_, _, _)
\* the loop of run_upgrade that appends the fallbacks not yet in existing_pairs
MergeFallbacks(us, fallbacks, existing_pairs) ==
    IF fallbacks = <<>> THEN us
    ELSE LET fallback == Head(fallbacks)
             pair == <<coordinate(fallback), fallback.latest_version>>
         IN  IF pair \in existing_pairs
             THEN MergeFallbacks(us, Tail(fallbacks), existing_pairs)
             ELSE MergeFallbacks(Append(us, fallback), Tail(fallbacks),
                                 existing_pairs \cup {pair})

\* _should_skip_apply without the dry-run test
ShouldSkipApplyNoDryRun(dry, m, minor_patch) ==
    m # "minor_patch" \/ minor_patch = <<>>

\* _should_skip_apply
_should_skip_apply(dry, m, minor_patch) ==
    dry \/ m # "minor_patch" \/ minor_patch = <<>>

\* is_parent of _apply_pom_updates
is_parent(update, deps) ==
    \E i \in 1..Len(deps) :
        /\ deps[i].source = "parent"
        /\ deps[i].group_id = update.group_id
        /\ deps[i].artifact_id = update.artifact_id

---------------------------------------------------------------------------
(* Inputs: names, versions and documents                                   *)

G1 == <<"o", ".", "g">>
G2 == <<"h">>
A1 == <<"a">>
A2 == <<"b">>
V1 == <<"1">>
V2 == <<"2">>
V3 == <<"3">>
NoText == <<>>

\* the placeholder ${name}
Ref(name) == <<"$", "{">> \o name \o <<"}">>
PName == <<"p">>
VersionName == <<"v", "e", "r", "s", "i", "o", "n">>

Elem(n, s) == <<Open(n)>> \o (IF s = NoText THEN <<>> ELSE <<Text(s)>>) \o <<Close(n)>>
Sp == <<Text(<<"\n", " ">>)>>

\* <dependency> with groupId, artifactId and, unless version = NoText, version
DepBlock(g, a, version) ==
    <<Open("dependency")>> \o Elem("groupId", g) \o Elem("artifactId", a)
        \o (IF version = NoText THEN <<>> ELSE Elem("version", version))
        \o <<Close("dependency")>>

\* the same, laid out with white space between the elements
DepBlockSp(g, a, version) ==
    <<Open("dependency")>> \o Sp \o Elem("groupId", g) \o Sp \o Elem("artifactId", a)
        \o Sp \o Elem("version", version) \o Sp \o <<Close("dependency")>>

ParentBlock(g, a, version) ==
    <<Open("parent")>> \o Sp \o Elem("groupId", g) \o Elem("artifactId", a)
        \o Elem("version", version) \o <<Close("parent")>>

\* a <parent> whose artifactId comes before its groupId
ParentBlockArtifactFirst(g, a, version) ==
    <<Open("parent")>> \o Elem("artifactId", a) \o Elem("groupId", g)
        \o Elem("version", version) \o <<Close("parent")>>

RECURSIVE Flatten(_)
Flatten(ss) == IF ss = <<>> THEN <<>> ELSE Head(ss) \o Flatten(Tail(ss))

Properties(props) == <<Open("properties")>> \o Flatten(props) \o <<Close("properties")>>
Dependencies(deps) == <<Open("dependencies")>> \o Flatten(deps) \o <<Close("dependencies")>>
Project(parts) == <<Open("project")>> \o Flatten(parts) \o <<Close("project")>>

MaxDeps == 2
MaxOps == 2

DepChoices ==
    { DepBlock(G1, A1, V1),
      DepBlockSp(G1, A1, <<" ">> \o Ref(PName) \o <<" ">>),
      DepBlock(G1, A1, Ref(VersionName)),
      DepBlock(G1, A1, NoText),
      DepBlock(G2, A2, Ref(PName)) }

PropertySections ==
    { <<>>,
      Properties(<<Elem("p", V1)>>),
      Properties(<<Elem("p", V1), Elem("a.version", V1)>>),
      Properties(<<Elem("g.version", V1), Elem("a-version", V1)>>),
      Properties(<<Elem("a-version", V1), Elem("p", V1)>>) }

ParentSections == { <<>>, ParentBlock(G1, A1, V1) }

SeqsUpTo(S, n) == UNION {[1..m -> S] : m \in 0..n}

\* the documents PomUpdater is exercised on
PatchDocs ==
    { Project(<<par, props, Dependencies(deps)>>) :
        par \in ParentSections, props \in PropertySections,
        deps \in SeqsUpTo(DepChoices, MaxDeps) }

Coordinates == { <<G1, A1>>, <<G2, A2>> }
NewVersions == { V1, V2 }

NoException == [cls |-> "none", msg |-> "none"]

\* no CopilotSDKClient exists
ClientIdle ==
    /\ fpc = "none" /\ sdk = "absent" /\ _client = "None" /\ _session = "None"
    /\ events = <<>> /\ result_parts = <<>> /\ done = FALSE /\ error_holder = <<>>
    /\ exc = NoException /\ response_text = <<>> /\ fetched = PyNone

NoCall == [op |-> "none", group_id |-> <<>>, artifact_id |-> <<>>,
           new_version |-> <<>>, ret |-> FALSE]

---------------------------------------------------------------------------
(* PomUpdater as an object: its methods called in any order                *)

RunIdle ==
    /\ pc = "idle" /\ mode = "minor_patch" /\ dry_run = FALSE
    /\ ignore_dependencies_arg = <<>> /\ ignore_dependencies_env = <<>>
    /\ ClientIdle
    /\ ignored_dependency_keys = {} /\ pom_content = <<>> /\ parsed_deps = <<>>
    /\ mcp_input = <<>> /\ mcp_response = PyNone /\ updates = <<>>
    /\ fallback_updates = <<>>
    /\ minor_patch_updates = <<>> /\ major_updates = <<>> /\ applied = <<>>
    /\ idx = 0 /\ rc = -1 /\ writes = 0 /\ start_disk = disk

\* PomUpdater.__init__ on a file holding any of PatchDocs
PatchInit ==
    /\ pom_exists = TRUE
    /\ disk \in PatchDocs
    /\ original_content = disk
    /\ content = original_content
    /\ call = NoCall /\ before = content /\ nops = 0
    /\ RunIdle

UpdateVersion(group_id, artifact_id, new_version) ==
    LET r == update_version(content, group_id, artifact_id, new_version)
    IN  /\ nops < MaxOps
        /\ content' = r.content
        /\ before' = content
        /\ call' = [op |-> "update_version", group_id |-> group_id,
                    artifact_id |-> artifact_id, new_version |-> new_version,
                    ret |-> r.ret]
        /\ nops' = nops + 1
        /\ UNCHANGED <<pom_exists, disk, original_content, runVars>>

UpdateParentVersion(new_version) ==
    LET r == update_parent_version(content, new_version)
    IN  /\ nops < MaxOps
        /\ content' = r.content
        /\ before' = content
        /\ call' = [NoCall EXCEPT !.op = "update_parent_version",
                                  !.new_version = new_version, !.ret = r.ret]
        /\ nops' = nops + 1
        /\ UNCHANGED <<pom_exists, disk, original_content, runVars>>

\* restore that writes the accumulated text instead of the original
RestoreWritesContent ==
    /\ nops < MaxOps + 1
    /\ disk' = content
    /\ before' = content
    /\ call' = [NoCall EXCEPT !.op = "restore"]
    /\ nops' = nops + 1
    /\ UNCHANGED <<pom_exists, content, original_content, runVars>>

\* PomUpdater.save; MaxOps bounds the calls, with room for one more save or
\* restore after the last update
Save ==
    /\ nops < MaxOps + 1
    /\ disk' = content
    /\ before' = content
    /\ call' = [NoCall EXCEPT !.op = "save"]
    /\ nops' = nops + 1
    /\ UNCHANGED <<pom_exists, content, original_content, runVars>>

\* PomUpdater.restore
Restore ==
    /\ nops < MaxOps + 1
    /\ disk' = original_content
    /\ before' = content
    /\ call' = [NoCall EXCEPT !.op = "restore"]
    /\ nops' = nops + 1
    /\ UNCHANGED <<pom_exists, content, original_content, runVars>>

PatchNext ==
    \/ \E c \in Coordinates, v \in NewVersions : UpdateVersion(c[1], c[2], v)
    \/ \E v \in NewVersions : UpdateParentVersion(v)
    \/ Save
    \/ Restore

PatchSpec == PatchInit /\ [][PatchNext]_vars

---------------------------------------------------------------------------
(* run_upgrade                                                             *)

Modes == {"minor_patch", "major", "all"}

\* the documents run_upgrade is started on
RunDocs ==
    { Project(<<Properties(<<Elem("p", V1)>>),
                Dependencies(<<DepBlock(G1, A1, V1), DepBlock(G2, A2, Ref(PName))>>)>>),
      Project(<<ParentBlock(G1, A1, V1),
                Dependencies(<<DepBlock(G1, A1, V1)>>)>>),
      Project(<<Properties(<<Elem("a.version", V1)>>),
                Dependencies(<<DepBlock(G1, A1, NoText), DepBlockSp(G2, A2, V1)>>)>>),
      Project(<<Properties(<<Elem("p", V2)>>),
                Dependencies(<<DepBlockSp(G1, A1, Ref(PName)), DepBlock(G2, A2, V2)>>)>>),
      Project(<<Dependencies(<<DepBlock(G1, A1, NoText)>>)>>),
      Project(<<Properties(<<Elem("g.version", V1), Elem("a-version", V1)>>),
                Dependencies(<<DepBlock(G1, A1, NoText), DepBlock(G2, A2, V1)>>)>>),
      Project(<<Properties(<<Elem("a-version", V1)>>),
                Dependencies(<<DepBlock(G1, A1, NoText), DepBlock(G2, A2, V1)>>)>>),
      Project(<<Dependencies(<<DepBlock(G1, A1, NoText), DepBlock(G2, A2, V1)>>)>>),
      Project(<<ParentBlockArtifactFirst(G1, A1, V1),
                Dependencies(<<DepBlock(G2, A2, V1)>>)>>),
      Project(<<ParentBlock(G1, A1, V1),
                Dependencies(<<DepBlock(G2, A2, V1)>>)>>),
      Project(<<ParentBlock(G1, A1, V3),
                Dependencies(<<DepBlock(G1, A1, V1)>>)>>),
      <<Open("project"), Open("dependencies"), Close("project")>> }

Key(g, a) == g \o <<":">> \o a

\* (ignore_dependencies, environment value) pairs
IgnoreInputs ==
    { [cli |-> <<>>, env |-> <<>>],
      [cli |-> << <<" ">> \o Key(G1, A1) \o <<":">> \o V1 >>, env |-> <<>>],
      [cli |-> << Key(G2, A2) >>, env |-> <<"\n">> \o Key(G2, A2) \o <<",", "\n", "x">>] }

Entry(g, a, current, latest, update_type) ==
    ("coordinate" :> PyStr(Key(g, a))) @@ ("currentVersion" :> PyStr(current))
        @@ ("latestVersion" :> PyStr(latest)) @@ ("updateType" :> PyStr(update_type))

WithFallback(entry, latest, update_type) ==
    entry @@ ("sameMajorStableFallback" :>
                PyDict(("latestVersion" :> PyStr(latest))
                           @@ ("updateType" :> PyStr(update_type))))

\* the entries a response is made of
Entries ==
    { PyDict(Entry(G1, A1, V1, V2, sMinor)),
      PyDict(WithFallback(Entry(G1, A1, V1, V3, sMajor), V2, sPatch)),
      PyDict(WithFallback(Entry(G2, A2, V1, V3, <<"M", "A", "J", "O", "R">>), V3,
                          <<"M", "i", "n", "o", "r">>)),
      PyDict(Entry(G2, A2, V1, V2, <<"P", "A", "T", "C", "H">>)),
      PyDict(("dependency" :> PyStr(Key(G2, A2))) @@ ("current" :> PyStr(V1))
                 @@ ("latest" :> PyStr(V2))),
      PyDict(Entry(G1, A1, V1, V1, sPatch)) }

MaxEntries == 2

\* the responses the external call can return
Responses ==
    { PyDict("data" :> PyDict("dependencies" :> PyList(es))) :
        es \in SeqsUpTo(Entries, MaxEntries) }
    \cup { PyStr(<<"x">>),
           PyList(<<PyDict(Entry(G1, A1, V1, V2, sPatch))>>),
           PyDict("dependencies" :> PyStr(<<"x">>)),
           PyDict("results" :> PyList(<<PyDict(Entry(G1, A1, V1, V2, sPatch))>>)) }

RunInit ==
    /\ pom_exists \in BOOLEAN
    /\ disk \in (IF pom_exists THEN RunDocs ELSE {<<>>})
    /\ start_disk = disk
    /\ content = <<>> /\ original_content = <<>>
    /\ call = NoCall /\ before = <<>> /\ nops = 0
    /\ pc = "start" /\ mode \in Modes /\ dry_run \in BOOLEAN
    /\ ignore_dependencies_arg = <<>> /\ ignore_dependencies_env = <<>>
    /\ ClientIdle
    /\ ignored_dependency_keys = {} /\ pom_content = <<>> /\ parsed_deps = <<>>
    /\ mcp_input = <<>> /\ mcp_response = PyNone /\ updates = <<>>
    /\ fallback_updates = <<>>
    /\ minor_patch_updates = <<>> /\ major_updates = <<>> /\ applied = <<>>
    /\ idx = 0 /\ rc = -1 /\ writes = 0

Return(code) == pc' = "done" /\ rc' = code

\* run_upgrade up to the external call: the existence check, the one read of
\* the file, the ignore keys and _parse_pom_dependencies
Start(ignore_dependencies, env_value) ==
    /\ pc = "start"
    /\ ignore_dependencies_arg' = ignore_dependencies
    /\ ignore_dependencies_env' = env_value
    /\ IF ~pom_exists
       THEN /\ Return(1)
            /\ UNCHANGED <<pom_content, ignored_dependency_keys, parsed_deps, mcp_input>>
       ELSE /\ pom_content' = disk
            /\ ignored_dependency_keys' =
                   parse_ignored_dependency_keys(ignore_dependencies, env_value)
            /\ IF ~ParseXml(pom_content').ok
               THEN Return(1) /\ UNCHANGED <<parsed_deps, mcp_input>>
               ELSE LET r == _parse_pom_dependencies(pom_content',
                                                     ignored_dependency_keys')
                    IN  /\ parsed_deps' = r.parsed_deps
                        /\ mcp_input' = r.mcp_input
                        /\ IF r.parsed_deps = <<>>
                           THEN Return(0)
                           ELSE pc' = "fetch" /\ rc' = rc
    /\ UNCHANGED <<patchVars, mode, dry_run, mcp_response, updates, fallback_updates,
                   minor_patch_updates, major_updates, applied, idx, writes, start_disk,
                   clientVars>>

\* the awaited call of _fetch_mcp_updates returns a response
FetchReturns(response) ==
    /\ pc = "fetch"
    /\ mcp_response' = response
    /\ pc' = "policy"
    /\ UNCHANGED <<patchVars, mode, dry_run, clientVars, ignore_dependencies_arg,
                   ignore_dependencies_env, ignored_dependency_keys, pom_content,
                   parsed_deps, mcp_input, updates, fallback_updates,
                   minor_patch_updates, major_updates, applied, idx, rc, writes,
                   start_disk>>

\* the except clause around the awaited call returning 0
FetchRaisesReturnsZero ==
    /\ pc = "fetch"
    /\ Return(0)
    /\ UNCHANGED <<patchVars, mode, dry_run, clientVars, ignore_dependencies_arg,
                   ignore_dependencies_env, ignored_dependency_keys, pom_content,
                   parsed_deps, mcp_input, mcp_response, updates, fallback_updates,
                   minor_patch_updates, major_updates, applied, idx, writes,
                   start_disk>>

\* the awaited call raises RuntimeError, ValueError or ImportError
FetchRaises ==
    /\ pc = "fetch"
    /\ Return(1)
    /\ UNCHANGED <<patchVars, mode, dry_run, clientVars, ignore_dependencies_arg,
                   ignore_dependencies_env, ignored_dependency_keys, pom_content,
                   parsed_deps, mcp_input, mcp_response, updates, fallback_updates,
                   minor_patch_updates, major_updates, applied, idx, writes,
                   start_disk>>

\* the working set of run_upgrade after the fallback merge
WorkingSet(primary, fallbacks, m) ==
    IF m = "minor_patch" /\ fallbacks # <<>>
    THEN MergeFallbacks(primary, fallbacks,
             {<<coordinate(primary[i]), primary[i].latest_version>> :
                 i \in 1..Len(primary)})
    ELSE primary

\* run_upgrade from the response to the decision to apply
Policy ==
    /\ pc = "policy"
    /\ LET primary == _filter_ignored_updates(parse_mcp_response(mcp_response),
                                              ignored_dependency_keys)
           fallbacks == IF mode = "minor_patch"
                        THEN _filter_ignored_updates(
                                 extract_server_same_major_fallback_updates(mcp_response),
                                 ignored_dependency_keys)
                        ELSE <<>>
           split == _filter_updates_by_mode(WorkingSet(primary, fallbacks, mode), mode)
       IN  IF primary = <<>>
           THEN /\ Return(0)
                /\ updates' = primary
                /\ UNCHANGED <<fallback_updates, minor_patch_updates, major_updates>>
           ELSE /\ fallback_updates' = fallbacks
                /\ updates' = WorkingSet(primary, fallbacks, mode)
                /\ minor_patch_updates' = split.minor_patch
                /\ major_updates' = split.major
                /\ IF _should_skip_apply(dry_run, mode, split.minor_patch)
                   THEN Return(0)
                   ELSE pc' = "construct" /\ rc' = rc
    /\ UNCHANGED <<patchVars, mode, dry_run, clientVars, ignore_dependencies_arg,
                   ignore_dependencies_env, ignored_dependency_keys, pom_content,
                   parsed_deps, mcp_input, mcp_response, applied, idx, writes,
                   start_disk>>

\* pom_updater = PomUpdater(pom_path): the file is read again
Construct ==
    /\ pc = "construct"
    /\ original_content' = disk
    /\ content' = disk
    /\ before' = disk
    /\ idx' = 1
    /\ pc' = "apply"
    /\ UNCHANGED <<pom_exists, disk, call, nops, mode, dry_run, clientVars, ignore_dependencies_arg,
                   ignore_dependencies_env, ignored_dependency_keys,
                   pom_content, parsed_deps, mcp_input, mcp_response, updates,
                   fallback_updates, minor_patch_updates, major_updates, applied, rc,
                   writes, start_disk>>

\* one iteration of the loop of _apply_pom_updates
ApplyOne ==
    /\ pc = "apply"
    /\ idx <= Len(minor_patch_updates)
    /\ LET update == minor_patch_updates[idx]
           parent == is_parent(update, parsed_deps)
           r == IF parent
                THEN update_parent_version(content, update.latest_version)
                ELSE update_version(content, update.group_id, update.artifact_id,
                                    update.latest_version)
       IN  /\ content' = r.content
           /\ before' = content
           /\ call' = [op |-> IF parent THEN "update_parent_version"
                              ELSE "update_version",
                       group_id |-> IF parent THEN <<>> ELSE update.group_id,
                       artifact_id |-> IF parent THEN <<>> ELSE update.artifact_id,
                       new_version |-> update.latest_version,
                       ret |-> r.ret]
           /\ applied' = IF r.ret THEN Append(applied, update) ELSE applied
    /\ idx' = idx + 1
    /\ UNCHANGED <<pom_exists, disk, original_content, nops, pc, mode, dry_run,
                   clientVars, ignore_dependencies_arg,
                   ignore_dependencies_env, ignored_dependency_keys, pom_content, parsed_deps, mcp_input,
                   mcp_response, updates, fallback_updates, minor_patch_updates,
                   major_updates, rc, writes, start_disk>>

\* has_changes, then the one save, then return 0
SaveIfChanged ==
    /\ IF has_changes(content, original_content)
       THEN disk' = content /\ writes' = writes + 1
       ELSE UNCHANGED <<disk, writes>>
    /\ Return(0)
    /\ UNCHANGED <<pom_exists, content, original_content, call, before, nops, mode,
                   dry_run, clientVars, ignore_dependencies_arg,
                   ignore_dependencies_env, ignored_dependency_keys, pom_content, parsed_deps, mcp_input,
                   mcp_response, updates, fallback_updates, minor_patch_updates,
                   major_updates, applied, idx, start_disk>>

\* the save moved into the loop: it runs before the updates are all applied
FinishEarly == pc = "apply" /\ SaveIfChanged

\* the end of run_upgrade, after the loop of _apply_pom_updates
Finish ==
    /\ pc = "apply"
    /\ idx > Len(minor_patch_updates)
    /\ SaveIfChanged

Next ==
    \/ \E i \in IgnoreInputs : Start(i.cli, i.env)
    \/ \E response \in Responses : FetchReturns(response)
    \/ FetchRaises
    \/ Policy
    \/ Construct
    \/ ApplyOne
    \/ Finish

Spec == RunInit /\ [][Next]_vars

\* another party rewrites the file while the external call is awaited
ExternalWrite(text) ==
    /\ pc = "fetch"
    /\ disk = start_disk
    /\ text # disk
    /\ disk' = text
    /\ UNCHANGED <<pom_exists, content, original_content, call, before, nops, runVars>>

NextConcurrent == Next \/ \E text \in RunDocs : ExternalWrite(text)

SpecConcurrent == RunInit /\ [][NextConcurrent]_vars

---------------------------------------------------------------------------
(* The resolver on its own: parse_pom_with_properties on any document      *)

MaxDecls == 3

\* the dependency declarations a resolved document is made of
DeclChoices ==
    { DepBlock(G1, A1, V1),
      DepBlockSp(G2, A2, <<" ">> \o V2 \o <<" ">>),
      DepBlock(G2, A2, Ref(PName)),
      DepBlock(G1, A2, Ref(<<"q">>)),
      DepBlock(G2, A1, NoText),
      DepBlock(G1, A1, <<" ">>) }

DeclPropertySections ==
    { <<>>,
      Properties(<<Elem("p", V1)>>),
      Properties(<<Elem("p", Ref(<<"q">>)), Elem("q", V3)>>),
      Properties(<<Elem("p", <<" ">>)>>),
      Properties(<<Elem("q", V3)>>) \o Properties(<<Elem("p", V2)>>) }

DeclParentSections ==
    { <<>>,
      ParentBlock(G2, A1, V1),
      ParentBlock(G2, A1, Ref(<<"r">>)) }

\* the documents the resolver is exercised on; the last one is not well-formed
ResolveDocs ==
    { Project(<<par, props, Dependencies(deps)>>) :
        par \in DeclParentSections, props \in DeclPropertySections,
        deps \in SeqsUpTo(DeclChoices, MaxDecls) }
    \cup { <<Open("project"), Open("dependencies"), Close("project")>> }

ResolveInit ==
    /\ pom_exists = TRUE
    /\ disk \in ResolveDocs
    /\ content = <<>> /\ original_content = <<>>
    /\ call = NoCall /\ before = <<>> /\ nops = 0
    /\ RunIdle

\* parse_pom_with_properties returns the list (format_for_mcp gives the payload)
Resolve ==
    /\ pc = "idle"
    /\ ParseXml(disk).ok
    /\ pom_content' = disk
    /\ parsed_deps' = parse_pom_with_properties(disk)
    /\ mcp_input' = format_for_mcp(parsed_deps')
    /\ Return(0)
    /\ UNCHANGED <<patchVars, mode, dry_run, clientVars, ignore_dependencies_arg,
                   ignore_dependencies_env, ignored_dependency_keys, mcp_response,
                   updates, fallback_updates, minor_patch_updates, major_updates,
                   applied, idx, writes, start_disk>>

\* ET.fromstring raises ParseError, which parse_pom_with_properties re-raises
ResolveRaises ==
    /\ pc = "idle"
    /\ ~ParseXml(disk).ok
    /\ pom_content' = disk
    /\ Return(1)
    /\ UNCHANGED <<patchVars, mode, dry_run, clientVars, ignore_dependencies_arg,
                   ignore_dependencies_env, ignored_dependency_keys, parsed_deps,
                   mcp_input, mcp_response, updates, fallback_updates,
                   minor_patch_updates, major_updates, applied, idx, writes,
                   start_disk>>

ResolveNext == Resolve \/ ResolveRaises

ResolveSpec == ResolveInit /\ [][ResolveNext]_vars

---------------------------------------------------------------------------
(* The response adapter on its own: parse_mcp_response and                 *)
(* extract_server_same_major_fallback_updates on any response              *)

sMAJOR == <<"M", "A", "J", "O", "R">>
sPATCH == <<"P", "A", "T", "C", "H">>

\* the same fields under the snake_case keys
SnakeEntry(g, a, current, latest, update_type) ==
    ("dependency" :> PyStr(Key(g, a))) @@ ("current_version" :> PyStr(current))
        @@ ("latest_version" :> PyStr(latest)) @@ ("update_type" :> PyStr(update_type))

WithSnakeFallback(entry, latest, update_type) ==
    entry @@ ("same_major_stable_fallback" :>
                PyDict(("latest_version" :> PyStr(latest))
                           @@ ("update_type" :> PyStr(update_type))))

\* the entries the adapter is exercised on
AdaptEntries ==
    { PyDict(Entry(G1, A1, V1, V2, sMinor)),
      PyDict(WithFallback(Entry(G1, A1, V1, V3, sMAJOR), V2, sPATCH)),
      PyDict(WithFallback(Entry(G2, A2, V1, V3, sMajor), V1, sPatch)),
      PyDict(WithFallback(Entry(G2, A2, V1, V3, sMajor), V2, sMajor)),
      PyDict(WithFallback(Entry(G1, A1, V1, V2, sMinor), V2, sPatch)),
      PyDict(WithSnakeFallback(SnakeEntry(G2, A1, V1, V3, sMajor),
                               <<" ">> \o V2, <<" ", "M", "i", "n", "o", "r">>)),
      PyDict(WithFallback(Entry(G2, A1, V1, V3, sMajor), <<" ">>, sPatch)),
      PyDict(("dependency" :> PyStr(Key(G2, A2))) @@ ("current" :> PyStr(V1))
                 @@ ("latest" :> PyStr(V2))),
      PyDict(Entry(G1, A1, V1, V1, sPatch)),
      PyDict(("coordinate" :> PyStr(Key(G1, A2))) @@ ("currentVersion" :> PyStr(V1))),
      PyDict(WithFallback(("coordinate" :> PyStr(Key(G1, A2)))
                              @@ ("currentVersion" :> PyStr(V1))
                              @@ ("updateType" :> PyStr(sMajor)), V2, sPatch)),
      PyDict(Entry(G1, <<>>, V1, V2, sPatch)),
      PyDict(("groupId" :> PyStr(G1)) @@ ("artifactId" :> PyStr(A2))
                 @@ ("version" :> PyStr(V1)) @@ ("recommendedVersion" :> PyStr(V2))
                 @@ ("upgradeType" :> PyStr(sPATCH))),
      PyDict(Entry(G1, A1, V1, <<>>, sPatch) @@ ("latest" :> PyStr(V2))),
      PyStr(<<"x">>) }

\* the responses the adapter is exercised on
AdaptResponses ==
    { PyDict("data" :> PyDict("dependencies" :> PyList(es))) :
        es \in SeqsUpTo(AdaptEntries, MaxEntries) }
    \cup { PyList(<<PyDict(Entry(G1, A1, V1, V2, sPatch))>>),
           PyStr(<<"x">>),
           PyDict("dependencies" :> PyDict("a" :> PyDict(Entry(G1, A1, V1, V2, sPatch)))),
           PyDict("data" :> PyDict("results" :> PyStr(<<"x">>))),
           PyDict("results" :> PyList(<<PyDict(Entry(G1, A1, V1, V2, sPatch))>>)) }

AdaptInit ==
    /\ pom_exists = TRUE /\ disk = <<>> /\ start_disk = disk
    /\ content = <<>> /\ original_content = <<>>
    /\ call = NoCall /\ before = <<>> /\ nops = 0
    /\ pc = "idle" /\ mode = "minor_patch" /\ dry_run = FALSE
    /\ ignore_dependencies_arg = <<>> /\ ignore_dependencies_env = <<>>
    /\ ClientIdle
    /\ ignored_dependency_keys = {} /\ pom_content = <<>> /\ parsed_deps = <<>>
    /\ mcp_input = <<>> /\ mcp_response \in AdaptResponses /\ updates = <<>>
    /\ fallback_updates = <<>>
    /\ minor_patch_updates = <<>> /\ major_updates = <<>> /\ applied = <<>>
    /\ idx = 0 /\ rc = -1 /\ writes = 0

\* the two adapter functions applied to the response
Adapt ==
    /\ pc = "idle"
    /\ updates' = parse_mcp_response(mcp_response)
    /\ fallback_updates' = extract_server_same_major_fallback_updates(mcp_response)
    /\ Return(0)
    /\ UNCHANGED <<patchVars, mode, dry_run, clientVars, ignore_dependencies_arg,
                   ignore_dependencies_env, ignored_dependency_keys, pom_content,
                   parsed_deps, mcp_input, mcp_response, minor_patch_updates,
                   major_updates, applied, idx, writes, start_disk>>

AdaptNext == Adapt

AdaptSpec == AdaptInit /\ [][AdaptNext]_vars

---------------------------------------------------------------------------
(* The ignore list on its own: parse_ignored_dependency_keys on any inputs *)

MaxIgnores == 2

\* the entries of the explicit list
IgnoreRaws ==
    { Key(G1, A1),
      <<" ">> \o Key(G1, A1) \o <<":">> \o V1 \o <<" ">>,
      Key(G2, A2),
      G1 \o <<":">>,
      <<":">> \o A1,
      <<"x">> }

\* the entries of the environment value
EnvRaws ==
    { Key(G1, A1),
      <<" ">> \o Key(G2, A2) \o <<":">> \o V2,
      G2 \o <<":", ":">> \o V1,
      <<>> }

\* environment values: entries separated by a comma and a newline
IgnoreInit ==
    /\ pom_exists = TRUE /\ disk = <<>> /\ start_disk = disk
    /\ content = <<>> /\ original_content = <<>>
    /\ call = NoCall /\ before = <<>> /\ nops = 0
    /\ pc = "idle" /\ mode = "minor_patch" /\ dry_run = FALSE
    /\ ignore_dependencies_arg \in SeqsUpTo(IgnoreRaws, MaxIgnores)
    /\ ignore_dependencies_env \in
           { JoinWith(es, <<",", "\n">>) : es \in SeqsUpTo(EnvRaws, MaxIgnores) }
    /\ ClientIdle
    /\ ignored_dependency_keys = {} /\ pom_content = <<>> /\ parsed_deps = <<>>
    /\ mcp_input = <<>> /\ mcp_response = PyNone /\ updates = <<>>
    /\ fallback_updates = <<>>
    /\ minor_patch_updates = <<>> /\ major_updates = <<>> /\ applied = <<>>
    /\ idx = 0 /\ rc = -1 /\ writes = 0

\* parse_ignored_dependency_keys applied to the two inputs
ParseIgnored ==
    /\ pc = "idle"
    /\ ignored_dependency_keys' =
           parse_ignored_dependency_keys(ignore_dependencies_arg,
                                         ignore_dependencies_env)
    /\ Return(0)
    /\ UNCHANGED <<patchVars, mode, dry_run, clientVars, ignore_dependencies_arg,
                   ignore_dependencies_env, pom_content, parsed_deps, mcp_input,
                   mcp_response, updates, fallback_updates, minor_patch_updates,
                   major_updates, applied, idx, writes, start_disk>>

IgnoreNext == ParseIgnored

IgnoreSpec == IgnoreInit /\ [][IgnoreNext]_vars

---------------------------------------------------------------------------
(* The external call on its own: _fetch_mcp_updates with CopilotSDKClient  *)
(* (src/copilot/sdk_client.py) and the except clause of run_upgrade        *)

MaxEvents == 3

Exception(cls, msg) == [cls |-> cls, msg |-> msg]

\* a session event: its type, and the content, delta or error data it carries
SessionEvent(type, data) == [type |-> type, data |-> data]

\* the events a session delivers
EventChoices ==
    { SessionEvent("assistant.message", <<"[", "]">>),
      SessionEvent("assistant.message", <<>>),
      SessionEvent("assistant.message_delta", <<"[">>),
      SessionEvent("assistant.message_delta", <<"x">>),
      SessionEvent("session.idle", <<>>),
      SessionEvent("error", <<"e">>) }

RECURSIVE BalancedEnd(_, _, _, _, _)
\* the depth loop of _extract_json_from_response: the index where the depth
\* returns to 0, 0 when it never does
BalancedEnd(s, i, depth, open_char, close_char) ==
    IF i > Len(s) THEN 0
    ELSE IF s[i] = open_char
    THEN BalancedEnd(s, i + 1, depth + 1, open_char, close_char)
    ELSE IF s[i] = close_char
    THEN IF depth = 1 THEN i
         ELSE BalancedEnd(s, i + 1, depth - 1, open_char, close_char)
    ELSE BalancedEnd(s, i + 1, depth, open_char, close_char)

RECURSIVE NestedList(_)
\* the value of "[[...]]" with n pairs of brackets
NestedList(n) == IF n = 1 THEN PyList(<<>>) ELSE PyList(<<NestedList(n - 1)>>)

\* _extract_json_from_response: [ok, value]; ok is FALSE where it raises
\* ValueError (json.JSONDecodeError is a ValueError)
_extract_json_from_response(response) ==
    LET \* str.find: index of the first occurrence of c, 0 when there is none
        find(c) == IF \E i \in 1..Len(response) : response[i] = c
                   THEN Min({i \in 1..Len(response) : response[i] = c}) ELSE 0
        start == IF find("{") # 0 THEN find("{") ELSE find("[")
        open_char == response[start]
        close_char == IF open_char = "{" THEN "}" ELSE "]"
        end == BalancedEnd(response, start, 0, open_char, close_char)
        \* json.loads on a text of brackets and letters
        json_str == SubSeq(response, start, end)
        n == Len(json_str) \div 2
    IN  IF start = 0 \/ end = 0 THEN [ok |-> FALSE, value |-> PyNone]
        ELSE IF json_str = <<"{", "}">> THEN [ok |-> TRUE, value |-> PyDict(<<>>)]
        ELSE IF /\ Len(json_str) = 2 * n /\ n >= 1
                /\ \A i \in 1..n : json_str[i] = "[" /\ json_str[n + i] = "]"
        THEN [ok |-> TRUE, value |-> NestedList(n)]
        ELSE [ok |-> FALSE, value |-> PyNone]

\* the locals of run_upgrade that the external call leaves alone
fetchFrame == <<patchVars, mode, dry_run, ignore_dependencies_arg,
                ignore_dependencies_env, ignored_dependency_keys, pom_content,
                parsed_deps, mcp_input, updates, fallback_updates,
                minor_patch_updates, major_updates, applied, idx, writes, start_disk>>

\* run_upgrade about to await _fetch_mcp_updates
ClientInit ==
    /\ pom_exists = TRUE
    /\ disk = Project(<<Dependencies(<<DepBlock(G1, A1, V1)>>)>>)
    /\ start_disk = disk
    /\ content = <<>> /\ original_content = <<>>
    /\ call = NoCall /\ before = <<>> /\ nops = 0
    /\ pc = "fetch" /\ mode \in Modes /\ dry_run = FALSE
    /\ ignore_dependencies_arg = <<>> /\ ignore_dependencies_env = <<>>
    /\ ignored_dependency_keys = {} /\ pom_content = disk
    /\ parsed_deps = parse_pom_with_properties(disk)
    /\ mcp_input = format_for_mcp(parsed_deps)
    /\ mcp_response = PyNone /\ updates = <<>> /\ fallback_updates = <<>>
    /\ minor_patch_updates = <<>> /\ major_updates = <<>> /\ applied = <<>>
    /\ idx = 0 /\ rc = -1 /\ writes = 0
    /\ fpc = "aenter" /\ sdk = "absent" /\ _client = "None" /\ _session = "None"
    /\ events = <<>> /\ result_parts = <<>> /\ done = FALSE /\ error_holder = <<>>
    /\ exc = NoException /\ response_text = <<>> /\ fetched = PyNone

\* start(): from copilot import CopilotClient
ImportSdk ==
    /\ fpc = "aenter"
    /\ \/ fpc' = "client_start" /\ exc' = exc
       \/ fpc' = "raise_out" /\ exc' = Exception("ImportError", "not installed")
    /\ UNCHANGED <<fetchFrame, pc, rc, mcp_response, sdk, _client, _session, events,
                   result_parts, done, error_holder, response_text, fetched>>

\* start(): self._client = CopilotClient(...); await self._client.start()
ClientStart ==
    /\ fpc = "client_start"
    /\ _client' = "set"
    /\ \/ sdk' = "running" /\ fpc' = "create_session" /\ exc' = exc
       \/ \E cls \in {"RuntimeError", "OSError"} :
              sdk' = sdk /\ fpc' = "raise_out" /\ exc' = Exception(cls, "start")
    /\ UNCHANGED <<fetchFrame, pc, rc, mcp_response, _session, events, result_parts,
                   done, error_holder, response_text, fetched>>

\* start(): self._session = await self._client.create_session(...); when the
\* call raises, __aenter__ raises and __aexit__ is not run
CreateSession ==
    /\ fpc = "create_session"
    /\ \/ _session' = "live" /\ fpc' = "submit" /\ exc' = exc
       \/ \E cls \in {"RuntimeError", "OSError"} :
              _session' = _session /\ fpc' = "raise_out"
                  /\ exc' = Exception(cls, "create_session")
    /\ UNCHANGED <<fetchFrame, pc, rc, mcp_response, sdk, _client, events, result_parts,
                   done, error_holder, response_text, fetched>>

\* submit up to the send: the session check and the handler registration
Submit ==
    /\ fpc = "submit"
    /\ IF _session = "None"
       THEN fpc' = "aexit" /\ exc' = Exception("RuntimeError", "Session not started")
       ELSE fpc' = "send" /\ exc' = exc
    /\ result_parts' = <<>> /\ done' = FALSE /\ error_holder' = <<>>
    /\ UNCHANGED <<fetchFrame, pc, rc, mcp_response, sdk, _client, _session, events,
                   response_text, fetched>>

\* await self._session.send(...) returns
SendReturns ==
    /\ fpc = "send"
    /\ fpc' = "wait"
    /\ UNCHANGED <<fetchFrame, pc, rc, mcp_response, sdk, _client, _session, events,
                   result_parts, done, error_holder, exc, response_text, fetched>>

\* await self._session.send(...) raises: the prompt did not go out, so no
\* event has answered it
SendRaises(cls) ==
    /\ fpc = "send"
    /\ events = <<>>
    /\ fpc' = "aexit" /\ exc' = Exception(cls, "send")
    /\ UNCHANGED <<fetchFrame, pc, rc, mcp_response, sdk, _client, _session, events,
                   result_parts, done, error_holder, response_text, fetched>>

\* on_event of _create_event_handler, called by the session while submit is
\* suspended in send or in done.wait()
OnEvent(event) ==
    /\ fpc \in {"send", "wait"}
    /\ Len(events) < MaxEvents
    /\ events' = Append(events, event)
    /\ result_parts' =
           IF event.type \in {"assistant.message", "assistant.message_delta"}
              /\ event.data # <<>>
           THEN Append(result_parts, event.data) ELSE result_parts
    /\ done' = (done \/ event.type \in {"session.idle", "error"})
    /\ error_holder' = IF event.type = "error" THEN event.data ELSE error_holder
    /\ UNCHANGED <<fetchFrame, pc, rc, mcp_response, sdk, _client, _session, fpc, exc,
                   response_text, fetched>>

\* done.wait() returning although the event is not set
WaitReturnsEarly ==
    /\ fpc = "wait"
    /\ fpc' = "check"
    /\ UNCHANGED <<fetchFrame, pc, rc, mcp_response, sdk, _client, _session, events,
                   result_parts, done, error_holder, exc, response_text, fetched>>

\* await done.wait() returns
WaitReturns ==
    /\ fpc = "wait"
    /\ done
    /\ fpc' = "check"
    /\ UNCHANGED <<fetchFrame, pc, rc, mcp_response, sdk, _client, _session, events,
                   result_parts, done, error_holder, exc, response_text, fetched>>

\* asyncio.timeout expires while done.wait() is pending
Timeout ==
    /\ fpc = "wait"
    /\ ~done
    /\ fpc' = "aexit" /\ exc' = Exception("RuntimeError", "Timeout")
    /\ UNCHANGED <<fetchFrame, pc, rc, mcp_response, sdk, _client, _session, events,
                   result_parts, done, error_holder, response_text, fetched>>

\* submit after the wait: the error check and the return
Check ==
    /\ fpc = "check"
    /\ IF error_holder # <<>>
       THEN /\ fpc' = "aexit" /\ exc' = Exception("RuntimeError", "Copilot error")
            /\ response_text' = response_text
       ELSE /\ fpc' = "extract" /\ exc' = exc
            /\ response_text' = Flatten(result_parts)
    /\ UNCHANGED <<fetchFrame, pc, rc, mcp_response, sdk, _client, _session, events,
                   result_parts, done, error_holder, fetched>>

\* compare_versions: return _extract_json_from_response(response)
Extract ==
    /\ fpc = "extract"
    /\ LET r == _extract_json_from_response(response_text)
       IN  IF r.ok THEN fetched' = r.value /\ exc' = exc
           ELSE fetched' = fetched /\ exc' = Exception("ValueError", "No JSON")
    /\ fpc' = "aexit"
    /\ UNCHANGED <<fetchFrame, pc, rc, mcp_response, sdk, _client, _session, events,
                   result_parts, done, error_holder, response_text>>

\* __aexit__: stop(), whose two SDK calls have their RuntimeError and OSError
\* caught; the exception of the body, if any, goes on
Stop ==
    /\ fpc = "aexit"
    /\ _session' = "None"
    /\ sdk' = IF _client # "None" THEN "stopped" ELSE sdk
    /\ _client' = "None"
    /\ fpc' = IF exc = NoException THEN "return" ELSE "raise_out"
    /\ UNCHANGED <<fetchFrame, pc, rc, mcp_response, events, result_parts, done,
                   error_holder, exc, response_text, fetched>>

\* run_upgrade: except (RuntimeError, ValueError, ImportError): return 1; any
\* other exception leaves run_upgrade
RunCatches ==
    /\ fpc = "raise_out"
    /\ fpc' = "none"
    /\ IF exc.cls \in {"RuntimeError", "ValueError", "ImportError"}
       THEN Return(1)
       ELSE pc' = "raised" /\ rc' = rc
    /\ UNCHANGED <<fetchFrame, mcp_response, sdk, _client, _session, events,
                   result_parts, done, error_holder, exc, response_text, fetched>>

\* run_upgrade: mcp_response = await _fetch_mcp_updates(...)
FetchDone ==
    /\ fpc = "return"
    /\ fpc' = "none"
    /\ mcp_response' = fetched
    /\ pc' = "policy"
    /\ UNCHANGED <<fetchFrame, rc, sdk, _client, _session, events, result_parts, done,
                   error_holder, exc, response_text, fetched>>

ClientNext ==
    \/ ImportSdk
    \/ ClientStart
    \/ CreateSession
    \/ Submit
    \/ SendReturns
    \/ \E cls \in {"RuntimeError", "OSError"} : SendRaises(cls)
    \/ \E event \in EventChoices : OnEvent(event)
    \/ WaitReturns
    \/ Timeout
    \/ Check
    \/ Extract
    \/ Stop
    \/ RunCatches
    \/ FetchDone

ClientSpec == ClientInit /\ [][ClientNext]_vars

\* the same, with the steps of the program and of the event loop taken when
\* they can be: a set event wakes the waiter, the timer of asyncio.timeout fires
ClientSpecFair ==
    /\ ClientSpec
    /\ WF_vars(WaitReturns) /\ WF_vars(Timeout) /\ WF_vars(Check)
    /\ WF_vars(Extract) /\ WF_vars(Stop) /\ WF_vars(RunCatches) /\ WF_vars(FetchDone)

---------------------------------------------------------------------------
(* Properties of PomUpdater (checked under PatchSpec)                      *)

\* positions where the text after the last call differs from the text before it
Changed == {i \in 1..Len(before) : i > Len(content) \/ content[i] # before[i]}

\* TRUE when token i lies inside an element named n
Inside(doc, i, n) ==
    \E j \in 1..(i - 1) :
        /\ doc[j] = Open(n)
        /\ \A m \in (j + 1)..(i - 1) : doc[m] # Close(n)

\* the version texts of the dependency blocks of doc
DepVersionTexts(doc) ==
    {i \in 2..Len(doc) :
        /\ doc[i].k = "text" /\ doc[i - 1] = Open("version")
        /\ Inside(doc, i, "dependency")}

\* the value texts of the property named prop_name in the properties sections
PropertyValueTexts(doc, prop_name) ==
    {i \in PropMatches(doc, prop_name) : Inside(doc, i, "properties")}

\* the last call was update_version for a dependency whose declared version
\* text is a placeholder
RedirectedCall ==
    /\ call.op = "update_version"
    /\ DepMatches(before, call.group_id, call.artifact_id) # {}
    /\ IsPropRef(Strip(before[Min(DepMatches(before, call.group_id, call.artifact_id))].s))

RedirectedName ==
    Join(PropRefName(Strip(
        before[Min(DepMatches(before, call.group_id, call.artifact_id))].s)))

\* C1: update_version for a dependency declared as ${p} changes only the value
\* text of property p; the version text of every dependency block is the same
\* before and after, so no placeholder becomes a literal.
C1_RedirectChangesOnlyProperty ==
    RedirectedCall =>
        /\ Len(content) = Len(before)
        /\ Changed \subseteq PropertyValueTexts(before, RedirectedName)
        /\ \A i \in DepVersionTexts(before) : content[i] = before[i]

\* C2: a successful replacement rewrites only the first match of its pattern;
\* everything else, further matches of the same pattern included, is unchanged.
C2_OnlyFirstOccurrence ==
    (call.op \in {"update_version", "update_parent_version"} /\ call.ret) =>
        /\ Len(content) = Len(before)
        /\ Cardinality(Changed) <= 1

---------------------------------------------------------------------------
(* Properties of run_upgrade (checked under Spec and SpecConcurrent)       *)

SeqToSet(q) == {q[i] : i \in 1..Len(q)}

\* the policy split of this run has been computed
PolicyDone == pc \in {"construct", "apply", "done"} /\ updates # <<>>

\* the primary updates of this run: the parsed response less the ignored keys
Primary ==
    _filter_ignored_updates(parse_mcp_response(mcp_response), ignored_dependency_keys)

\* the response proposes something, all of it major, and embeds no fallback
OnlyMajorResponse ==
    /\ mcp_response # PyNone
    /\ parse_mcp_response(mcp_response) # <<>>
    /\ \A u \in SeqToSet(parse_mcp_response(mcp_response)) : u.update_type = sMajor
    /\ extract_server_same_major_fallback_updates(mcp_response) = <<>>

\* C3: only minor or patch updates, and only in mode minor_patch, reach the
\* patcher; a major update is in manual review and not in auto-apply; a run whose
\* response holds only major proposals and no fallback ends with the file as it
\* was, returns 0 and applies nothing.
C3_OnlyMinorPatchReachPatcher ==
    /\ \A u \in SeqToSet(minor_patch_updates) :
           mode = "minor_patch" /\ u.update_type \in {sMinor, sPatch}
    /\ call.op # "none" =>
           /\ mode = "minor_patch" /\ idx >= 2
           /\ minor_patch_updates[idx - 1].update_type \in {sMinor, sPatch}
           /\ call.new_version = minor_patch_updates[idx - 1].latest_version
    /\ PolicyDone =>
           \A u \in SeqToSet(updates) :
               u.update_type = sMajor =>
                   u \in SeqToSet(major_updates) /\ u \notin SeqToSet(minor_patch_updates)
    /\ (pc = "done" /\ OnlyMajorResponse) =>
           rc = 0 /\ disk = start_disk /\ applied = <<>> /\ writes = 0

\* a run in mode minor_patch that patched a minor or patch update and left a
\* major one to manual review
C3_Witness ==
    /\ pc = "done" /\ mode = "minor_patch" /\ rc = 0 /\ writes = 1
    /\ applied # <<>> /\ major_updates # <<>>

\* C4: in mode minor_patch every update of the working set is in autoApply
\* (minor, patch) or in manualReview (major, unknown, anything else); none is
\* missing from both.
C4_SplitPartitionsWorkingSet ==
    (PolicyDone /\ mode = "minor_patch") =>
        \A u \in SeqToSet(updates) :
            IF u.update_type \in {sMinor, sPatch}
            THEN u \in SeqToSet(minor_patch_updates)
            ELSE u \in SeqToSet(major_updates)

\* C5: in the modes major and all, autoApply is empty, manualReview is the whole
\* working set, the patcher is never constructed and the file is never written.
C5_ReportOnlyModes ==
    mode # "minor_patch" =>
        /\ minor_patch_updates = <<>>
        /\ PolicyDone => major_updates = updates
        /\ pc \notin {"construct", "apply"}
        /\ call.op = "none"
        /\ writes = 0 /\ disk = start_disk

\* a finished run in mode all whose response proposed a minor update
C5_Witness ==
    /\ mode = "all" /\ ~dry_run /\ pc = "done" /\ rc = 0
    /\ \E u \in SeqToSet(updates) : u.update_type = sMinor
    /\ major_updates = updates

\* C6: with dry-run no PomUpdater is constructed, saved or restored and the file
\* is never written, in every mode and for every response; the run returns 0
\* once the response has arrived.
C6_DryRunNeverWrites ==
    dry_run =>
        /\ pc \notin {"construct", "apply"}
        /\ original_content = <<>> /\ call.op = "none"
        /\ writes = 0 /\ disk = start_disk
        /\ (pc = "done" /\ mcp_response # PyNone) => rc = 0

\* a finished dry run in mode minor_patch that found updates it would apply
C6_Witness ==
    /\ dry_run /\ mode = "minor_patch" /\ pc = "done" /\ rc = 0
    /\ minor_patch_updates # <<>>

\* C7: the file is written at most once, as the last step, after every accepted
\* update has been applied in memory; before that, and on a failed run, it holds
\* the text it held when the run started.
C7_WrittenOnceAtTheEnd ==
    /\ writes <= 1
    /\ writes = 0 => disk = start_disk
    /\ writes = 1 =>
           /\ pc = "done" /\ rc = 0
           /\ idx > Len(minor_patch_updates)
           /\ disk = content
    /\ rc = 1 => disk = start_disk

\* a run that applied two updates in memory and then wrote the file once
C7_Witness ==
    /\ writes = 1 /\ disk # start_disk /\ Len(applied) >= 2

\* C8: the text PomUpdater edits and saves is the text the resolver parsed, even
\* if another party rewrites the file while the external call is awaited.
C8_PatcherEditsParsedText ==
    (pc \in {"apply", "done"} /\ idx >= 1) => original_content = pom_content

\* C9: a key of the ignore set is in neither the resolved list nor the payload,
\* and no update for it (primary or fallback) is in the working set, in
\* auto-apply, in manual review or handed to the patcher.
C9_IgnoredNeverResolvedNorUpdated ==
    \A k \in ignored_dependency_keys :
        /\ \A d \in SeqToSet(parsed_deps) : coordinate(d) # k
        /\ \A seg \in SeqToSet(Split(mcp_input, ",")) : ~StartsWith(seg, k \o <<":">>)
        /\ \A u \in SeqToSet(updates) \cup SeqToSet(fallback_updates)
                    \cup SeqToSet(minor_patch_updates) \cup SeqToSet(major_updates)
                    \cup SeqToSet(applied) : coordinate(u) # k
        /\ call.op = "update_version" => Key(call.group_id, call.artifact_id) # k

\* a run that wrote the file although the response proposed an update for an
\* ignored key
C9_Witness ==
    /\ pc = "done" /\ writes = 1
    /\ \E u \in SeqToSet(parse_mcp_response(mcp_response)) :
           coordinate(u) \in ignored_dependency_keys

Pair(u) == <<coordinate(u), u.latest_version>>

\* C10: in mode minor_patch the working set is the primary updates followed by
\* fallbacks, each appended only if no earlier update of the working set has
\* its (coordinate, recommended version) pair, and every fallback's pair is in
\* the working set; in the other modes the working set is the primary updates.
C10_FallbackMergeDedup ==
    PolicyDone =>
        IF mode = "minor_patch"
        THEN /\ Len(updates) >= Len(Primary)
             /\ SubSeq(updates, 1, Len(Primary)) = Primary
             /\ \A j \in (Len(Primary) + 1)..Len(updates) :
                    /\ updates[j] \in SeqToSet(fallback_updates)
                    /\ \A i \in 1..(j - 1) : Pair(updates[i]) # Pair(updates[j])
             /\ \A f \in SeqToSet(fallback_updates) :
                    \E i \in 1..Len(updates) : Pair(updates[i]) = Pair(f)
        ELSE updates = Primary /\ fallback_updates = <<>>

\* a merge that appended one fallback and dropped another as a duplicate
C10_Witness ==
    /\ PolicyDone /\ mode = "minor_patch"
    /\ Len(updates) > Len(Primary)
    /\ Len(updates) < Len(Primary) + Len(fallback_updates)

---------------------------------------------------------------------------
(* Properties of the resolver (checked under ResolveSpec)                  *)

RECURSIVE SortedSeq(_)
\* the elements of a set of numbers, in increasing order
SortedSeq(S) == IF S = {} THEN <<>> ELSE <<Min(S)>> \o SortedSeq(S \ {Min(S)})

\* the closing tag of the element opened at token i
BlockEnd(doc, i) == Min({j \in (i + 1)..Len(doc) : doc[j] = Close(doc[i].n)})

\* the child element named tag of the block opened at i: whether it is there,
\* and its text without the surrounding white space
ChildOf(doc, i, tag) ==
    LET c == {j \in (i + 1)..(BlockEnd(doc, i) - 1) : doc[j] = Open(tag)}
    IN  IF c = {} THEN [present |-> FALSE, s |-> <<>>]
        ELSE [present |-> TRUE,
              s |-> IF doc[Min(c) + 1].k = "text" THEN Strip(doc[Min(c) + 1].s)
                    ELSE <<>>]

\* the dependency declarations of doc, in document order
Declared(doc) ==
    LET at == SortedSeq({i \in 1..Len(doc) :
                   doc[i] = Open("dependency") /\ Inside(doc, i, "dependencies")})
    IN  [k \in 1..Len(at) |->
            [key |-> Key(ChildOf(doc, at[k], "groupId").s,
                         ChildOf(doc, at[k], "artifactId").s),
             has_version |-> ChildOf(doc, at[k], "version").present,
             version |-> ChildOf(doc, at[k], "version").s]]

IsPlaceholder(t) == StartsWith(t, <<"$", "{">>) /\ EndsWith(t, <<"}">>)

\* the properties blocks of doc
PropertyBlocks(doc) == {i \in 1..Len(doc) : doc[i] = Open("properties")}

\* the value of the property named by the placeholder t in the first
\* properties block of doc, <<>> when the block defines no such property (or
\* an empty one)
DeclaredProperty(doc, t) ==
    LET name == Join(SubSeq(t, 3, Len(t) - 1))
        at == {i \in 1..Len(doc) :
                  /\ doc[i] = Open(name) /\ Inside(doc, i, "properties")
                  /\ i < BlockEnd(doc, Min(PropertyBlocks(doc)))}
    IN  IF at = {} \/ doc[Min(at) + 1].k # "text" THEN <<>>
        ELSE Strip(doc[Min(at) + 1].s)

\* what the declared version text t stands for: itself if it is a literal, the
\* property's value if it is a placeholder, <<>> if there is none
ExpectedVersion(doc, t) ==
    IF IsPlaceholder(t) THEN DeclaredProperty(doc, t) ELSE t

\* the declarations that have a version element and a version to resolve to
Kept(doc) ==
    SelectSeq(Declared(doc),
              LAMBDA d : d.has_version /\ ExpectedVersion(doc, d.version) # <<>>)

\* the records of the direct dependencies in the returned list
Direct == SelectSeq(parsed_deps, LAMBDA d : d.source = "dependency")

Resolved == pc = "done" /\ rc = 0 /\ ParseXml(disk).ok

\* C11: a declaration with a literal version text resolves to that literal, one
\* with ${p} to the value of property p; a declaration whose property is absent
\* is left out of the list and the parse still returns.
C11_ResolvedVersions ==
    Resolved =>
        LET kept == Kept(disk)
            direct == Direct
        IN  /\ Len(direct) = Len(kept)
            /\ \A k \in 1..Len(direct) :
                   direct[k].version = ExpectedVersion(disk, kept[k].version)

\* a parse that resolved a literal and a placeholder and left out a
\* declaration whose property is absent
C11_Witness ==
    /\ Resolved
    /\ \E d \in SeqToSet(Declared(disk)) :
           d.has_version /\ IsPlaceholder(d.version)
               /\ ExpectedVersion(disk, d.version) = <<>>
    /\ \E k \in 1..Len(Direct) : IsPlaceholder(Kept(disk)[k].version)
    /\ \E k \in 1..Len(Direct) : ~IsPlaceholder(Kept(disk)[k].version)

\* C12: a declaration without a version element is not in the returned list;
\* the other declarations are, in document order.
C12_UnversionedExcluded ==
    Resolved =>
        LET declared == Declared(disk)
            kept == Kept(disk)
            direct == Direct
        IN  /\ Len(direct) <= Cardinality({k \in 1..Len(declared) :
                                              declared[k].has_version})
            /\ [k \in 1..Len(direct) |-> coordinate(direct[k])]
                   = [k \in 1..Len(kept) |-> kept[k].key]

\* a parse of a document with a declaration without version between two others
C12_Witness ==
    /\ Resolved
    /\ Len(Declared(disk)) = 3 /\ ~Declared(disk)[2].has_version
    /\ Len(Direct) = 2 /\ coordinate(Direct[1]) # coordinate(Direct[2])

\* C13: every record of the returned list, parent or direct, has a version that
\* is not empty, not white space only and not a ${...} placeholder.
C13_VersionsAreLiterals ==
    Resolved =>
        \A d \in SeqToSet(parsed_deps) :
            /\ ~IsBlank(d.version)
            /\ ~IsPlaceholder(d.version)

\* the declarations whose version text is a literal
KeptLiterals(doc) ==
    SelectSeq(Declared(doc),
              LAMBDA d : d.has_version /\ d.version # <<>> /\ ~IsPlaceholder(d.version))

\* the direct records are those of the declarations kept, with these versions
DirectAre(kept, versions) ==
    /\ Len(Direct) = Len(kept)
    /\ \A k \in 1..Len(Direct) :
           /\ coordinate(Direct[k]) = kept[k].key
           /\ Direct[k].version = versions[k]

\* C24 as stated: with no properties block, or with more than one, the
\* property table is empty, so that no placeholder resolves and only the
\* declarations with a literal version are returned.
C24_EmptyTableUnlessOneBlock ==
    (Resolved /\ Cardinality(PropertyBlocks(disk)) # 1) =>
        LET kept == KeptLiterals(disk)
        IN  DirectAre(kept, [k \in 1..Len(kept) |-> kept[k].version])

\* C24: with no properties block the property table is empty, so that only
\* the declarations with a literal version are returned; with more than one
\* block the table is that of the first block in document order: a
\* placeholder resolves to the value the first block gives its name and the
\* declaration is left out when the first block does not define it.
C24_TableOfFirstBlock ==
    Resolved =>
        /\ PropertyBlocks(disk) = {} =>
               LET kept == KeptLiterals(disk)
               IN  DirectAre(kept, [k \in 1..Len(kept) |-> kept[k].version])
        /\ Cardinality(PropertyBlocks(disk)) > 1 =>
               LET kept == Kept(disk)
               IN  DirectAre(kept, [k \in 1..Len(kept) |->
                                      ExpectedVersion(disk, kept[k].version)])

\* a parse of a document with two properties blocks: a placeholder defined in
\* the first block resolved, one defined only in the second left out
C24_Witness ==
    /\ Resolved /\ Cardinality(PropertyBlocks(disk)) = 2
    /\ \E k \in 1..Len(Direct) : IsPlaceholder(Kept(disk)[k].version)
    /\ \E d \in SeqToSet(Declared(disk)) :
           /\ d.has_version /\ IsPlaceholder(d.version)
           /\ ExpectedVersion(disk, d.version) = <<>>
           /\ \E i \in 1..Len(disk) :
                  disk[i] = Open(Join(SubSeq(d.version, 3, Len(d.version) - 1)))

---------------------------------------------------------------------------
(* Properties of the response adapter (checked under AdaptSpec and Spec)   *)

\* the string under the first of keys that the entry holds, <<>> when it holds
\* none of them
Field(d, keys) ==
    LET present == {k \in 1..Len(keys) : keys[k] \in DOMAIN d}
    IN  IF present = {} THEN <<>> ELSE d[keys[Min(present)]].s

CurrentOf(d) == Field(d, <<"currentVersion", "current_version", "current", "version">>)
RecommendedOf(d) ==
    Field(d, <<"latestVersion", "latest_version", "latest", "recommendedVersion">>)
ClassificationOf(d) == Field(d, <<"updateType", "update_type", "type", "upgradeType">>)
CoordinateOf(d) == Field(d, <<"coordinate", "dependency">>)
GroupOf(d) ==
    IF \E i \in 1..Len(CoordinateOf(d)) : CoordinateOf(d)[i] = ":"
    THEN Split(CoordinateOf(d), ":")[1] ELSE Field(d, <<"groupId">>)
ArtifactOf(d) ==
    IF \E i \in 1..Len(CoordinateOf(d)) : CoordinateOf(d)[i] = ":"
    THEN Split(CoordinateOf(d), ":")[2] ELSE Field(d, <<"artifactId">>)

\* the entry names a module, a current version and a different recommended one
ValidEntry(d) ==
    /\ RecommendedOf(d) # <<>> /\ RecommendedOf(d) # CurrentOf(d)
    /\ GroupOf(d) # <<>> /\ ArtifactOf(d) # <<>> /\ CurrentOf(d) # <<>>

\* the primary update an entry stands for: none, or one
ExpectedUpdate(d) ==
    IF ValidEntry(d)
    THEN << DependencyUpdate(GroupOf(d), ArtifactOf(d), CurrentOf(d), RecommendedOf(d),
                IF ClassificationOf(d) = <<>> THEN sUnknown
                ELSE Lower(ClassificationOf(d))) >>
    ELSE <<>>

\* the fallback object an entry embeds, PyNone when it embeds none
FallbackOf(d) ==
    IF "sameMajorStableFallback" \in DOMAIN d THEN d["sameMajorStableFallback"]
    ELSE IF "same_major_stable_fallback" \in DOMAIN d
    THEN d["same_major_stable_fallback"] ELSE PyNone

\* the embedded fallback has a recommended version and is minor or patch
UsableFallback(d) ==
    /\ FallbackOf(d).t = "dict"
    /\ Strip(Field(FallbackOf(d).d, <<"latestVersion", "latest_version">>)) # <<>>
    /\ Lower(Strip(Field(FallbackOf(d).d, <<"updateType", "update_type">>)))
           \in {sMinor, sPatch}

FallbackFor(d) ==
    DependencyUpdate(GroupOf(d), ArtifactOf(d), CurrentOf(d),
        Strip(Field(FallbackOf(d).d, <<"latestVersion", "latest_version">>)),
        Lower(Strip(Field(FallbackOf(d).d, <<"updateType", "update_type">>))))

\* the entries of a response whose list is where the adapter looks for it
EntriesOf(response) ==
    IF response.t = "dict" /\ _extract_deps_data(response.d).t = "list"
    THEN SelectSeq(_extract_deps_data(response.d).l, LAMBDA e : e.t = "dict")
    ELSE <<>>

Adapted == pc = "done" /\ mcp_response # PyNone

\* the string under the first of keys that holds a non-empty string, <<>> when
\* none does
FirstUsable(d, keys) ==
    LET usable == {k \in 1..Len(keys) :
                      keys[k] \in DOMAIN d /\ d[keys[k]].t = "str" /\ d[keys[k]].s # <<>>}
    IN  IF usable = {} THEN <<>> ELSE d[keys[Min(usable)]].s

\* the list of entries under the first candidate location that holds a list
UsableList(response) ==
    LET inner == IF response.t = "dict" /\ "data" \in DOMAIN response.d
                    /\ response.d["data"].t = "dict"
                 THEN response.d["data"].d ELSE <<>>
        outer == IF response.t = "dict" THEN response.d ELSE <<>>
        lists == << Get(inner, "dependencies", PyNone), Get(inner, "results", PyNone),
                    Get(outer, "dependencies", PyNone), Get(outer, "results", PyNone) >>
        usable == {k \in 1..4 : lists[k].t = "list"}
    IN  IF usable = {} THEN <<>>
        ELSE SelectSeq(lists[Min(usable)].l, LAMBDA e : e.t = "dict")

\* the update an entry stands for when each field is read from its first
\* usable candidate
UsableUpdate(d) ==
    LET current == FirstUsable(d, <<"currentVersion", "current_version", "current",
                                    "version">>)
        latest == FirstUsable(d, <<"latestVersion", "latest_version", "latest",
                                   "recommendedVersion">>)
        update_type == FirstUsable(d, <<"updateType", "update_type", "type",
                                        "upgradeType">>)
        coord == FirstUsable(d, <<"coordinate", "dependency">>)
        has_colon == \E i \in 1..Len(coord) : coord[i] = ":"
        group_id == IF has_colon THEN Split(coord, ":")[1]
                    ELSE FirstUsable(d, <<"groupId">>)
        artifact_id == IF has_colon THEN Split(coord, ":")[2]
                       ELSE FirstUsable(d, <<"artifactId">>)
    IN  IF latest # <<>> /\ latest # current /\ current # <<>>
           /\ group_id # <<>> /\ artifact_id # <<>>
        THEN << DependencyUpdate(group_id, artifact_id, current, latest,
                    IF update_type = <<>> THEN sUnknown ELSE Lower(update_type)) >>
        ELSE <<>>

\* C25: every field of an entry, and the list of entries itself, is read from
\* the first candidate name, the documented one first, that carries a usable
\* value; a documented key that is present but empty does not hide an alias.
C25_FirstUsableCandidate ==
    Adapted =>
        LET es == UsableList(mcp_response)
        IN  updates = Flatten([k \in 1..Len(es) |-> UsableUpdate(es[k].d)])

\* C14: every update that leaves the adapter, primary or fallback, has a
\* non-empty group, artifact, current version and recommended version, and its
\* recommended version is not its current version.
C14_NoIdentityOrEmptyUpdates ==
    Adapted =>
        \A u \in SeqToSet(updates) \cup SeqToSet(fallback_updates) :
            /\ u.group_id # <<>> /\ u.artifact_id # <<>>
            /\ u.current_version # <<>> /\ u.latest_version # <<>>
            /\ u.latest_version # u.current_version

\* C15: the primary updates are those of the valid entries, in order, each with
\* the entry's classification folded to lower case, unknown when the entry has
\* none; an entry without classification is not dropped.
C15_ClassificationLowerCased ==
    Adapted =>
        LET es == EntriesOf(mcp_response)
        IN  /\ updates = Flatten([k \in 1..Len(es) |-> ExpectedUpdate(es[k].d)])
            /\ \A u \in SeqToSet(updates) : u.update_type = Lower(u.update_type)

\* a response with an upper-case classification and an entry without one
C15_Witness ==
    /\ Adapted
    /\ \E u \in SeqToSet(updates) : u.update_type = sUnknown
    /\ \E e \in SeqToSet(EntriesOf(mcp_response)) :
           ValidEntry(e.d) /\ ClassificationOf(e.d) # Lower(ClassificationOf(e.d))

\* C16 as stated: an entry yields a fallback update exactly when its
\* classification is major and it embeds a usable fallback.
C16_FallbackIffMajorAndUsable ==
    Adapted =>
        LET es == EntriesOf(mcp_response)
        IN  fallback_updates =
                Flatten([k \in 1..Len(es) |->
                    IF Lower(ClassificationOf(es[k].d)) = sMajor /\ UsableFallback(es[k].d)
                    THEN <<FallbackFor(es[k].d)>> ELSE <<>>])

\* C16 amended: an entry yields a fallback update exactly when it is a valid
\* primary update classified major and it embeds a fallback object with a
\* non-empty recommended version and classification minor or patch; the update
\* has the entry's coordinate and current version and the fallback's
\* recommended version and classification.
C16_FallbackIffValidMajorAndUsable ==
    Adapted =>
        LET es == EntriesOf(mcp_response)
        IN  fallback_updates =
                Flatten([k \in 1..Len(es) |->
                    IF /\ ExpectedUpdate(es[k].d) # <<>>
                       /\ ExpectedUpdate(es[k].d)[1].update_type = sMajor
                       /\ UsableFallback(es[k].d)
                    THEN <<FallbackFor(es[k].d)>> ELSE <<>>])

\* a response with a snake_case fallback that is used and a major fallback
\* that is discarded
C16_Witness ==
    /\ Adapted /\ Len(fallback_updates) = 1
    /\ Len(EntriesOf(mcp_response)) = 2
    /\ \E e \in SeqToSet(EntriesOf(mcp_response)) :
           "same_major_stable_fallback" \in DOMAIN e.d /\ UsableFallback(e.d)
    /\ \E e \in SeqToSet(EntriesOf(mcp_response)) :
           /\ FallbackOf(e.d).t = "dict"
           /\ Field(FallbackOf(e.d).d, <<"updateType", "update_type">>) = sMajor

\* the top level is not a mapping, or what is found where the dependency list
\* should be is not a list
Malformed(response) ==
    \/ response.t # "dict"
    \/ LET inner == IF "data" \in DOMAIN response.d /\ response.d["data"].t = "dict"
                    THEN response.d["data"].d ELSE response.d
       IN  \/ "dependencies" \in DOMAIN inner /\ inner["dependencies"].t # "list"
           \/ "dependencies" \notin DOMAIN inner /\ "results" \in DOMAIN inner
                  /\ inner["results"].t # "list"

\* C17: on a malformed response both adapter functions return the empty list,
\* and the run returns 0 from the 'up to date' branch without writing the file.
C17_MalformedResponseIsEmpty ==
    (mcp_response # PyNone /\ Malformed(mcp_response)) =>
        /\ parse_mcp_response(mcp_response) = <<>>
        /\ extract_server_same_major_fallback_updates(mcp_response) = <<>>
        /\ pc \in {"policy", "done"}
        /\ pc = "done" =>
               /\ rc = 0 /\ updates = <<>> /\ fallback_updates = <<>>
               /\ writes = 0 /\ disk = start_disk /\ original_content = <<>>

\* a finished run, not a dry run, in mode minor_patch whose response was a list
C17_Witness ==
    /\ pc = "done" /\ rc = 0 /\ mode = "minor_patch" /\ ~dry_run
    /\ mcp_response.t = "list" /\ mcp_response.l # <<>>

---------------------------------------------------------------------------
(* Further properties of PomUpdater (checked under PatchSpec and Spec)     *)

\* <artifact>.version, <lastGroupSegment>.version, <artifact>-version for the
\* coordinate of the last call
NamesTried ==
    << Join(call.artifact_id) \o ".version",
       Join(LastSegment(call.group_id, ".")) \o ".version",
       Join(call.artifact_id) \o "-version" >>

\* the property names update_version tries for the last call that are defined
\* in the text before the call, as indices into NamesTried
PresentNames ==
    {k \in 1..3 :
        PropMatches(before, NamesTried[k]) # {}}

\* the token that holds the value the last call is about: the version text of
\* the first matching block, or the value of the property it stands for
TargetOfCall ==
    IF call.op = "update_parent_version" THEN Min(ParentMatches(before))
    ELSE IF DepMatches(before, call.group_id, call.artifact_id) # {}
    THEN IF RedirectedCall THEN Min(PropMatches(before, RedirectedName))
         ELSE Min(DepMatches(before, call.group_id, call.artifact_id))
    ELSE Min(PropMatches(before,
                 NamesTried[Min(PresentNames)]))

\* C18: an update whose recommended version is the value already present
\* reports success and leaves the text as it was, so that has_changes, which
\* compares the accumulated text with the original, stays false.
C18_RedundantUpdateChangesNothing ==
    (/\ call.op \in {"update_version", "update_parent_version"} /\ call.ret
     /\ before[TargetOfCall].s = call.new_version) =>
        /\ content = before
        /\ before = original_content => ~has_changes(content, original_content)

\* C19: restore leaves the file equal to the text read when the PomUpdater was
\* constructed, whatever was updated and saved before; save leaves the file
\* equal to the accumulated text; neither changes the accumulated text.
C19_SaveAndRestore ==
    (call.op \in {"save", "restore"} /\ pc = "idle") =>
        /\ original_content = start_disk
        /\ content = before
        /\ call.op = "restore" => disk = start_disk
        /\ call.op = "save" => disk = content

\* a restore as the third call, on a PomUpdater whose text was changed
C19_Witness ==
    /\ pc = "idle" /\ call.op = "restore" /\ nops = MaxOps + 1
    /\ content # original_content /\ disk = start_disk

\* C29: after restore the accumulated text is the original text again and
\* has_changes is false, so that a save that follows writes the original text.
C29_RestoreIsPristine ==
    (call.op = "restore" /\ pc = "idle") =>
        /\ content = original_content
        /\ ~has_changes(content, original_content)

\* C20: when no dependency block with a version matches, update_version
\* rewrites the value of the first of <artifact>.version,
\* <lastGroupSegment>.version, <artifact>-version that the text defines and
\* nothing else; when the text defines none it returns False and leaves the
\* text as it was, and the run goes on to the remaining updates.
C20_PropertyNameHeuristics ==
    /\ (call.op = "update_version"
            /\ DepMatches(before, call.group_id, call.artifact_id) = {}) =>
           IF PresentNames = {}
           THEN ~call.ret /\ content = before
           ELSE LET at == PropMatches(before,
                              NamesTried[
                                  Min(PresentNames)])
                IN  /\ call.ret /\ Len(content) = Len(before)
                    /\ Changed \subseteq at
                    /\ \A i \in at : content[i] = Text(call.new_version)
    /\ (pc = "done" /\ call.op # "none") => idx = Len(minor_patch_updates) + 1

\* a run whose first update could not be located and whose second was applied
C20_Witness ==
    /\ pc = "done" /\ rc = 0 /\ writes = 1
    /\ Len(minor_patch_updates) = 2 /\ Len(applied) = 1
    /\ applied[1] = minor_patch_updates[2]
    /\ DepMatches(original_content, minor_patch_updates[1].group_id,
                  minor_patch_updates[1].artifact_id) = {}

---------------------------------------------------------------------------
(* Properties of the parent update (checked under Spec)                    *)

\* the version texts of the parent blocks of doc
ParentVersionTexts(doc) ==
    {i \in 2..Len(doc) :
        /\ doc[i].k = "text" /\ doc[i - 1] = Open("version")
        /\ Inside(doc, i, "parent")}

\* the elements of the block opened at token i, in document order
OpensIn(doc, i) ==
    SortedSeq({j \in (i + 1)..(BlockEnd(doc, i) - 1) : doc[j].k = "open"})

\* a parent block laid out as groupId, artifactId, version, each with text
ParentLocated(doc) ==
    \E i \in 1..Len(doc) :
        /\ doc[i] = Open("parent")
        /\ LET o == OpensIn(doc, i)
           IN  /\ Len(o) >= 3
               /\ <<doc[o[1]].n, doc[o[2]].n, doc[o[3]].n>>
                      = <<"groupId", "artifactId", "version">>
               /\ \A k \in 1..3 : doc[o[k] + 1].k = "text"

\* C21: an update for the coordinate of the parent record replaces the
\* version text of the one parent block and nothing else; when no parent
\* block is located it is not applied and the text stays as it was, and the
\* run goes on to the remaining updates.
C21_ParentUpdateTouchesOnlyParent ==
    /\ call.op = "update_parent_version" =>
           IF ParentLocated(before)
           THEN /\ call.ret /\ Len(content) = Len(before)
                /\ Cardinality(ParentVersionTexts(before)) = 1
                /\ Changed \subseteq ParentVersionTexts(before)
                /\ \A i \in ParentVersionTexts(before) :
                       content[i] = Text(call.new_version)
           ELSE /\ ~call.ret /\ content = before
                /\ minor_patch_updates[idx - 1] \notin SeqToSet(applied)
    /\ (pc = "done" /\ call.op # "none") => idx = Len(minor_patch_updates) + 1

\* the parent block was rewritten in a document that also has a dependency
\* block with a version
C21_Witness ==
    /\ call.op = "update_parent_version" /\ call.ret /\ content # before
    /\ DepVersionTexts(before) # {}
    /\ pc = "done" /\ writes = 1

\* the parent update was skipped and the update after it was applied
C21_SkippedThenApplied ==
    /\ pc = "done" /\ Len(minor_patch_updates) = 2
    /\ is_parent(minor_patch_updates[1], parsed_deps)
    /\ applied = <<minor_patch_updates[2]>>
    /\ content # original_content

\* the records of parsed_deps with the coordinate and current version of u
RecordsOf(u, source) ==
    {i \in 1..Len(parsed_deps) :
        /\ parsed_deps[i].source = source
        /\ coordinate(parsed_deps[i]) = coordinate(u)
        /\ parsed_deps[i].version = u.current_version}

\* the document declares a parent and a versioned dependency of one coordinate
DeclaresBoth(doc) ==
    \E p \in 1..Len(doc), k \in 1..Len(Kept(doc)) :
        /\ doc[p] = Open("parent")
        /\ ChildOf(doc, p, "version").s # <<>>
        /\ Kept(doc)[k].key = Key(ChildOf(doc, p, "groupId").s,
                                  ChildOf(doc, p, "artifactId").s)

\* C26: a coordinate declared as the parent and as a direct dependency gives
\* two records, and an update is applied to the text of the record it is
\* about: the update whose current version is that of the direct record, not
\* of the parent record, rewrites the dependency block and leaves the parent
\* block alone, and the other way round.
C26_ParentAndDirectIndependent ==
    /\ (pc \in {"fetch", "policy", "construct", "apply"} /\ DeclaresBoth(pom_content)
            /\ ignored_dependency_keys = {}) =>
           \E i, j \in 1..Len(parsed_deps) :
               /\ parsed_deps[i].source = "parent"
               /\ parsed_deps[j].source = "dependency"
               /\ coordinate(parsed_deps[i]) = coordinate(parsed_deps[j])
    /\ (pc \in {"apply", "done"} /\ idx > 1 /\ call.op # "none") =>
           LET u == minor_patch_updates[idx - 1]
           IN  /\ (RecordsOf(u, "dependency") # {} /\ RecordsOf(u, "parent") = {}) =>
                      Changed \cap ParentVersionTexts(before) = {}
               /\ (RecordsOf(u, "parent") # {} /\ RecordsOf(u, "dependency") = {}) =>
                      Changed \cap DepVersionTexts(before) = {}

\* the run ended in the except clause around the external call
FetchFailed == pc = "done" /\ parsed_deps # <<>> /\ mcp_response = PyNone

\* the document is missing or is not well-formed
Unreadable == ~pom_exists \/ ~ParseXml(start_disk).ok

\* C23: a missing or unparsable document, or a failed external call, ends the
\* run with outcome 1, with no updates computed or applied and the file as it
\* was; with a missing or unparsable document the external call is never
\* reached.
C23_FatalFaults ==
    /\ (pc = "done" /\ (Unreadable \/ FetchFailed)) =>
           /\ rc = 1
           /\ updates = <<>> /\ minor_patch_updates = <<>> /\ applied = <<>>
           /\ writes = 0 /\ disk = start_disk
    /\ Unreadable =>
           /\ pc \in {"start", "done"}
           /\ mcp_response = PyNone /\ mcp_input = <<>>

\* a run that ended because the external call failed
C23_Witness == FetchFailed /\ rc = 1 /\ pom_exists /\ ParseXml(start_disk).ok

---------------------------------------------------------------------------
(* Properties of the ignore list (checked under IgnoreSpec)                *)

\* the entries of a comma/newline-separated string: its maximal runs of
\* characters other than the separators
EntriesOfEnv(s) ==
    {SubSeq(s, i, j) : i \in 1..Len(s), j \in 1..Len(s)} \cap
    {SubSeq(s, i, j) : <<i, j>> \in
        {ij \in (1..Len(s)) \X (1..Len(s)) :
            /\ ij[1] <= ij[2]
            /\ \A m \in ij[1]..ij[2] : s[m] \notin {",", "\n"}
            /\ ij[1] = 1 \/ s[ij[1] - 1] \in {",", "\n"}
            /\ ij[2] = Len(s) \/ s[ij[2] + 1] \in {",", "\n"}}}

\* positions of the colons of an entry
Colons(e) == {i \in 1..Len(e) : e[i] = ":"}

\* the group of an entry: the text before its first colon, stripped
GroupPart(e) == Strip(SubSeq(e, 1, Min(Colons(e)) - 1))

\* the artifact of an entry: the text between its first colon and its second
\* colon or its end, stripped
ArtifactPart(e) ==
    LET c == Min(Colons(e))
        rest == {i \in Colons(e) : i > c}
    IN  Strip(SubSeq(e, c + 1, IF rest = {} THEN Len(e) ELSE Min(rest) - 1))

\* an entry that names a group and an artifact
NamesCoordinate(e) ==
    Colons(e) # {} /\ GroupPart(e) # <<>> /\ ArtifactPart(e) # <<>>

\* all entries of the two sources
IgnoreEntries ==
    SeqToSet(ignore_dependencies_arg) \cup EntriesOfEnv(ignore_dependencies_env)

\* the keys the entries stand for
ExpectedKeys ==
    {Key(GroupPart(e), ArtifactPart(e)) : e \in {x \in IgnoreEntries : NamesCoordinate(x)}}

\* C22: the returned set is the union of the keys of the explicit list and of
\* the separated string, each as group:artifact without surrounding white
\* space and without the version segment; being a set of the entries' keys it
\* holds each key once and does not depend on the order of the entries.
C22_UnionOfNormalisedKeys ==
    pc = "done" => ignored_dependency_keys = ExpectedKeys

\* the well-formed entries are normalised, merged and deduplicated as C22 says
C22_OnCoordinates ==
    pc = "done" =>
        {k \in ignored_dependency_keys :
            Cardinality(Colons(k)) = 1 /\ NamesCoordinate(k)} = ExpectedKeys

\* the same key given by both sources, once with a version, and a second key
C22_Merged ==
    /\ pc = "done" /\ Len(ignore_dependencies_arg) = 2
    /\ ignored_dependency_keys = {Key(G1, A1), Key(G2, A2)}
    /\ Cardinality(IgnoreEntries) >= 4

\* C28: every returned key is group:artifact with a non-empty group, a
\* non-empty artifact and no further segment.
C28_KeysAreCoordinates ==
    pc = "done" =>
        \A k \in ignored_dependency_keys :
            /\ Cardinality(Colons(k)) = 1
            /\ Min(Colons(k)) \notin {1, Len(k)}
            /\ \A i \in 1..Len(k) : k[i] \notin WhiteChars

---------------------------------------------------------------------------
(* Properties of the external call (checked under ClientSpec and           *)
(* ClientSpecFair)                                                         *)

EventTypes == {events[i].type : i \in 1..Len(events)}

\* the content of the message and delta events, in arrival order
ReceivedContent ==
    Flatten([i \in 1..Len(events) |->
                IF events[i].type \in {"assistant.message", "assistant.message_delta"}
                THEN events[i].data ELSE <<>>])

\* submit has been left, by a return or by an exception
SubmitOver == events # <<>> /\ fpc \notin {"send", "wait", "check"}

\* submit returned a value
SubmitReturned == SubmitOver /\ exc.msg \notin {"Timeout", "Copilot error"}

C27_Safety ==
    /\ SubmitReturned =>
           /\ "session.idle" \in EventTypes
           /\ response_text = ReceivedContent
    /\ (SubmitOver /\ "error" \in EventTypes) =>
           exc = Exception("RuntimeError", "Copilot error")
    /\ exc.msg = "Timeout" =>
           /\ exc.cls = "RuntimeError"
           /\ fpc = "none" => (pc = "done" /\ rc = 1 /\ writes = 0)

\* C27: submit returns only after a session.idle event, and then the content
\* received, in arrival order; an error event makes it raise RuntimeError; so
\* does the timeout when neither arrives, and run_upgrade then returns 1;
\* a wait always ends.
C27_SubmitWaitsForCompletion ==
    /\ []C27_Safety
    /\ (fpc = "wait") ~> (pc # "fetch")

\* submit returned the two parts it received before session.idle
C27_Witness ==
    /\ SubmitReturned /\ Len(result_parts) = 2 /\ fpc = "extract"
    /\ events[Len(events)].type = "session.idle"

\* a timeout turned into outcome 1
C27_TimedOut == exc.msg = "Timeout" /\ pc = "done" /\ rc = 1

\* C30: when run_upgrade has left the external call, by a value or by an
\* exception, a client that was started has been stopped.
C30_StartedClientIsStopped ==
    pc # "fetch" => sdk # "running"

=============================================================================
